---- MODULE Spec2Model ----
(***************************************************************************)
(* Model of the CSS color resolver of kumo-figma                           *)
(* (packages/kumo-figma/scripts/color-utils.ts), of the build-time runner  *)
(* of figma:sync, of the Figma plugin (page sync and message handler), and *)
(* of the FlowDiagram and Pagination components of kumo.                   *)
(*                                                                         *)
(* A JavaScript string is a sequence of one-character strings.  A number   *)
(* is a fixed-point integer: parsed numbers count units of 1/Scale, color  *)
(* channels count units of 1/One, and NaN is a reserved integer that no    *)
(* computation of the model produces otherwise.                            *)
(***************************************************************************)
EXTENDS Integers, Sequences, FiniteSets, TLC

VARIABLES value, built, pc, result, calls,
          environ, processEnv, dotEnv, runnerPc, started, status, exitCode,
          pages, currentPage, syncPc, uiKitPage, pagesToRemove, children,
          returnedPage,
          handlers, received, closes, closeMessage, errorNotified,
          panX, panY, bounds, listenerBounds, effectPending, isPanning,
          gesture, cursor, userSelect, mounted,
          pageNumber, perPage, totalCount, editingPage, setPageCall

\* The state of the callers of resolveColor.
resolverVars == <<value, built, pc, result, calls>>

\* The state of the build-time sync runner.
runnerVars == <<environ, processEnv, dotEnv, runnerPc, started, status, exitCode>>

\* The Figma document and the state of destructiveSyncPages.
documentVars ==
  <<pages, currentPage, syncPc, uiKitPage, pagesToRemove, children,
    returnedPage>>

\* The generate handlers of the Figma plugin and the calls that end it.
pluginVars == <<handlers, received, closes, closeMessage, errorNotified>>

\* The state of a FlowDiagram and of the document body.
diagramVars ==
  <<panX, panY, bounds, listenerBounds, effectPending, isPanning, gesture,
    cursor, userSelect, mounted>>

\* The props and the state of a Pagination and the last call of setPage.
paginationVars == <<pageNumber, perPage, totalCount, editingPage, setPageCall>>

\* The state of the user interface code.
uiVars == <<pluginVars, diagramVars, paginationVars>>

vars == <<resolverVars, runnerVars, documentVars, uiVars>>

(***************************************************************************)
(* Bounds of the model.                                                    *)
(***************************************************************************)
\* Largest number of pieces a caller concatenates into one argument.
MaxPieces == 4

\* Largest number of pieces a caller concatenates into one var() reference.
MaxVarPieces == 5

\* Largest number of pieces a caller concatenates into one oklch() expression.
MaxOklchPieces == 4

\* Largest number of pages of the Figma document before the sync.
MaxPages == 3

\* Largest number of nodes on a page before the sync.
MaxNodes == 1

\* Largest number of lines of the .env file of the sync runner.
MaxLines == 2

\* Largest number of characters of the lightness token of an oklch()
\* expression.
MaxDigits == 3

\* Largest number of pieces a caller concatenates into nested var()
\* references.
MaxNestPieces == 7

\* Largest number of calls of resolveColor that one caller makes in a row.
MaxCalls == 3

\* Largest totalCount of a Pagination.
MaxTotalCount == 7

\* Largest perPage of a Pagination.
MaxPerPage == 3

\* Largest number of messages that reach the plugin.
MaxMessages == 2

\* Largest number of generate messages among them.
MaxGenerates == 1

\* The largest number of var() references nested into each other.
MaxNesting == 3

(***************************************************************************)
(* Numbers.                                                                *)
(***************************************************************************)
\* parseFloat results count units of 1/Scale (five decimals are kept).
Scale == 100000

\* Color channels count units of 1/One, so that n/255 and k/Scale are exact.
One == 255 * Scale

\* The JavaScript value NaN.
NaN == 0 - 2000000000

\* The JavaScript value null returned by extractCssVarFallback.
Null == <<"null">>

\* The JavaScript value undefined of an unmatched capture group.
Undefined == <<"undefined">>

\* The value null of String.prototype.match: no match.
NoMatch ==
  [matched |-> FALSE, text |-> <<>>, lightnessStr |-> <<>>,
   chromaStr |-> <<>>, hueStr |-> <<>>, alphaStr |-> Undefined]

\* The value undefined where a color object is expected.
NoColor == [mode |-> "undefined", r |-> NaN, g |-> NaN, b |-> NaN]

(***************************************************************************)
(* String primitives of JavaScript used by the resolver.                   *)
(***************************************************************************)
\* Characters removed by String.prototype.trim and matched by \s.
WhiteSpace == {" ", "\t", "\n"}

\* [0-9] of the regular expressions.
DecDigits == {"0", "1", "2", "3", "4", "5", "6", "7", "8", "9"}

\* [0-9.] of the OKLCH regular expression.
NumChars == DecDigits \cup {"."}

\* [0-9a-f] under the i flag.
HexDigits == DecDigits \cup {"a", "b", "c", "d", "e", "f",
                             "A", "B", "C", "D", "E", "F"}

\* s[p] for a 1-based p, and the empty string outside the string.
At(s, p) == IF p >= 1 /\ p <= Len(s) THEN s[p] ELSE ""

RECURSIVE trimStart(_)
trimStart(s) ==
  IF s # <<>> /\ Head(s) \in WhiteSpace THEN trimStart(Tail(s)) ELSE s

RECURSIVE trimEnd(_)
trimEnd(s) ==
  IF s # <<>> /\ s[Len(s)] \in WhiteSpace
  THEN trimEnd(SubSeq(s, 1, Len(s) - 1))
  ELSE s

\* A trim of the leading white space only.
trim_LeadingOnly(s) == trimStart(s)

trim(s) == trimEnd(trimStart(s))

startsWith(s, prefix) ==
  Len(s) >= Len(prefix) /\ SubSeq(s, 1, Len(prefix)) = prefix

endsWith(s, suffix) ==
  Len(s) >= Len(suffix) /\ SubSeq(s, Len(s) - Len(suffix) + 1, Len(s)) = suffix

\* s.slice(from, to) with 0 <= from, to <= s.length (0-based, to exclusive).
slice(s, from, to) == SubSeq(s, from + 1, to)

\* The number of consecutive characters of class cls in s from position p on.
RECURSIVE runLength(_, _, _)
runLength(s, p, cls) ==
  IF At(s, p) \in cls THEN 1 + runLength(s, p + 1, cls) ELSE 0

\* The value of one hexadecimal digit.
hexDigitValue(ch) ==
  CASE ch = "0" -> 0 [] ch = "1" -> 1 [] ch = "2" -> 2 [] ch = "3" -> 3
    [] ch = "4" -> 4 [] ch = "5" -> 5 [] ch = "6" -> 6 [] ch = "7" -> 7
    [] ch = "8" -> 8 [] ch = "9" -> 9
    [] ch \in {"a", "A"} -> 10 [] ch \in {"b", "B"} -> 11
    [] ch \in {"c", "C"} -> 12 [] ch \in {"d", "D"} -> 13
    [] ch \in {"e", "E"} -> 14 [] ch \in {"f", "F"} -> 15

\* The value of a run of digits in the given base.
RECURSIVE digitsValue(_, _)
digitsValue(digits, base) ==
  IF digits = <<>> THEN 0
  ELSE digitsValue(SubSeq(digits, 1, Len(digits) - 1), base) * base
       + hexDigitValue(digits[Len(digits)])

\* parseInt(digits, 16) for a string of hexadecimal digits.
parseInt16(digits) == digitsValue(digits, 16)

\* 10^n.
RECURSIVE pow10(_)
pow10(n) == IF n = 0 THEN 1 ELSE 10 * pow10(n - 1)

\* parseFloat(str) for a string that starts with characters of [0-9.]:
\* the longest prefix of the form digits [ "." digits ] is read, what follows
\* it is ignored, and a prefix without any digit gives NaN.
parseFloat(str) ==
  LET nInt == runLength(str, 1, DecDigits)
      hasDot == At(str, nInt + 1) = "."
      nFrac == IF hasDot THEN runLength(str, nInt + 2, DecDigits) ELSE 0
      kept == IF nFrac > 5 THEN 5 ELSE nFrac
      intPart == digitsValue(SubSeq(str, 1, nInt), 10)
      fracPart == digitsValue(SubSeq(str, nInt + 2, nInt + 1 + kept), 10)
  IN IF nInt = 0 /\ nFrac = 0 THEN NaN
     ELSE intPart * Scale + fracPart * pow10(5 - kept)

(***************************************************************************)
(* Outcomes of a call: a returned color or a thrown Error.                 *)
(***************************************************************************)
Return(color) == [ok |-> TRUE, color |-> color]

\* new Error(`${message}${input}`)
Throw(message, input) == [ok |-> FALSE, message |-> message, input |-> input]

(***************************************************************************)
(* extractCssVarFallback (color-utils.ts:51-77).                           *)
(***************************************************************************)
\* "var("
VarPrefix == <<"v", "a", "r", "(">>

\* The for loop of extractCssVarFallback from index i (0-based) on with the
\* given depth: the index of the first comma met at depth 1, or -1.
RECURSIVE scanComma(_, _, _)
\* A scan that takes the first comma inside any parenthesis, nested or not.
scanComma_AnyDepth(end, i, depth) ==
  IF i >= Len(end) THEN 0 - 1
  ELSE LET ch == end[i + 1]
       IN IF ch = "(" THEN scanComma(end, i + 1, depth + 1)
          ELSE IF ch = ")" THEN scanComma(end, i + 1, depth - 1)
          ELSE IF ch = "," /\ depth >= 1 THEN i
          ELSE scanComma(end, i + 1, depth)

scanComma(end, i, depth) ==
  IF i >= Len(end) THEN 0 - 1
  ELSE LET ch == end[i + 1]
       IN IF ch = "(" THEN scanComma(end, i + 1, depth + 1)
          ELSE IF ch = ")" THEN scanComma(end, i + 1, depth - 1)
          ELSE IF ch = "," /\ depth = 1 THEN i
          ELSE scanComma(end, i + 1, depth)

\* extractCssVarFallback with the slice started at the comma instead of
\* after it.
extractCssVarFallback_SliceAtComma(v) ==
  LET s == trim(v)
      end == trimEnd(s)
      commaIndex == scanComma(end, 0, 0)
      closeIndex == Len(end) - 1
  IN IF ~startsWith(s, VarPrefix) THEN Null
     ELSE IF ~endsWith(end, <<")">>) THEN Null
     ELSE IF commaIndex = 0 - 1 THEN Null
     ELSE trim(slice(end, commaIndex, closeIndex))

\* extractCssVarFallback without the test for the closing parenthesis.
extractCssVarFallback_Unclosed(v) ==
  LET s == trim(v)
      end == trimEnd(s)
      commaIndex == scanComma(end, 0, 0)
      closeIndex == Len(end) - 1
  IN IF ~startsWith(s, VarPrefix) THEN Null
     ELSE IF commaIndex = 0 - 1 THEN Null
     ELSE trim(slice(end, commaIndex + 1, closeIndex))

extractCssVarFallback(v) ==
  LET s == trim(v)
      end == trimEnd(s)
      commaIndex == scanComma(end, 0, 0)
      closeIndex == Len(end) - 1
  IN IF ~startsWith(s, VarPrefix) THEN Null
     ELSE IF ~endsWith(end, <<")">>) THEN Null
     ELSE IF commaIndex = 0 - 1 THEN Null
     ELSE trim(slice(end, commaIndex + 1, closeIndex))

(***************************************************************************)
(* rgb() of the culori library, applied to an Oklch object                 *)
(* (color-utils.ts:1, 108-109).  The library is not part of the            *)
(* repository; it is modelled as the deterministic OKLCH -> OKLab ->       *)
(* linear sRGB -> sRGB transform in per-mille fixed point.  It does not    *)
(* clamp, and NaN in a component it reads gives NaN channels.              *)
(***************************************************************************)
\* Lightness and chroma beyond this many thousandths are cut off, which
\* keeps the fixed-point products in range.
GamutCap == 4 * 1000

cap(x) == IF x > GamutCap THEN GamutCap ELSE x

\* <<cos, sin>> of a hue in thousandths, the hue rounded down to a multiple
\* of 30 degrees.
cosSin(degrees) ==
  LET k == (degrees % 360) \div 30
  IN CASE k = 0 -> <<1000, 0>>       [] k = 1 -> <<866, 500>>
       [] k = 2 -> <<500, 866>>      [] k = 3 -> <<0, 1000>>
       [] k = 4 -> <<0 - 500, 866>>  [] k = 5 -> <<0 - 866, 500>>
       [] k = 6 -> <<0 - 1000, 0>>   [] k = 7 -> <<0 - 866, 0 - 500>>
       [] k = 8 -> <<0 - 500, 0 - 866>> [] k = 9 -> <<0, 0 - 1000>>
       [] k = 10 -> <<500, 0 - 866>> [] k = 11 -> <<866, 0 - 500>>

cube(x) == (((x * x) \div 1000) * x) \div 1000

\* The sRGB transfer function on thousandths, piecewise linear between
\* exact knots.
gammaPos(x) ==
  LET lerp(x0, y0, x1, y1) == y0 + ((x - x0) * (y1 - y0)) \div (x1 - x0)
  IN CASE x <= 3 -> (x * 1292) \div 100
       [] x > 3 /\ x <= 10 -> lerp(3, 39, 10, 100)
       [] x > 10 /\ x <= 50 -> lerp(10, 100, 50, 248)
       [] x > 50 /\ x <= 100 -> lerp(50, 248, 100, 349)
       [] x > 100 /\ x <= 200 -> lerp(100, 349, 200, 485)
       [] x > 200 /\ x <= 400 -> lerp(200, 485, 400, 665)
       [] x > 400 /\ x <= 700 -> lerp(400, 665, 700, 854)
       [] x > 700 /\ x <= 1000 -> lerp(700, 854, 1000, 1000)
       [] x > 1000 /\ x <= 2000 -> lerp(1000, 1000, 2000, 1353)
       [] x > 2000 /\ x <= 8000 -> lerp(2000, 1353, 8000, 2454)
       [] x > 8000 -> 2454 + (x - 8000) \div 10

gamma(x) == IF x < 0 THEN 0 - gammaPos(0 - x) ELSE gammaPos(x)

\* l, c and h count units of 1/Scale; the channels returned count 1/One.
culoriRgb(l, c, h) ==
  LET nan == l = NaN \/ (c # NaN /\ c # 0 /\ h = NaN)
      chroma == IF c = NaN THEN 0 ELSE cap(c \div 100)
      cs == IF chroma = 0 THEN <<0, 0>> ELSE cosSin(h \div Scale)
      a == (chroma * cs[1]) \div 1000
      b == (chroma * cs[2]) \div 1000
      light == cap(l \div 100)
      L == cube(light + (396 * a + 216 * b) \div 1000)
      M == cube(light - (106 * a + 64 * b) \div 1000)
      S == cube(light - (89 * a + 1291 * b) \div 1000)
      lr == (4077 * L - 3308 * M + 231 * S) \div 1000
      lg == (2610 * M - 1268 * L - 341 * S) \div 1000
      lb == (1708 * S - 4 * L - 703 * M) \div 1000
      unit == One \div 1000
  IN IF nan THEN [mode |-> "rgb", r |-> NaN, g |-> NaN, b |-> NaN]
     ELSE [mode |-> "rgb", r |-> gamma(lr) * unit, g |-> gamma(lg) * unit,
           b |-> gamma(lb) * unit]

\* Math.max(0, Math.min(1, x)): NaN stays NaN.
clamp01(x) ==
  IF x = NaN THEN NaN ELSE IF x < 0 THEN 0 ELSE IF x > One THEN One ELSE x

(***************************************************************************)
(* convertOklchToFigma (color-utils.ts:85-127).                            *)
(***************************************************************************)
\* "oklch("
OklchPrefix == <<"o", "k", "l", "c", "h", "(">>

\* \s* from position p on: the position after the white space.
skipSpace(s, p) == p + runLength(s, p, WhiteSpace)

\* [0-9.]* from position p on: the position after the token characters.
skipToken(s, p) == p + runLength(s, p, NumChars)

\* %? at position p: the position after it.
skipPercent(s, p) == IF At(s, p) = "%" THEN p + 1 ELSE p

\* ([0-9.]+)\s+ at position p: the position after it, or 0 without a match.
tokenThenSpace(s, p) ==
  LET e == skipToken(s, p)
  IN IF e > p /\ skipSpace(s, e) > e THEN skipSpace(s, e) ELSE 0

\* \s*\) at position p: the position of the parenthesis, or 0 without a
\* match.
closeAt(s, p) == IF At(s, skipSpace(s, p)) = ")" THEN skipSpace(s, p) ELSE 0

\* (?:\/\s*([0-9.]+))?\s*\) at position p: the alpha group and the position
\* of the closing parenthesis, which is 0 without a match.  After a "/" the
\* group cannot be skipped, since "/" is neither white space nor ")".
oklchTail(s, p) ==
  LET a == skipSpace(s, p + 1)
  IN IF At(s, p) = "/"
     THEN IF skipToken(s, a) > a
          THEN [alphaStr |-> SubSeq(s, a, skipToken(s, a) - 1),
                last |-> closeAt(s, skipToken(s, a))]
          ELSE [alphaStr |-> Undefined, last |-> 0]
     ELSE [alphaStr |-> Undefined, last |-> closeAt(s, p)]

\* The regular expression of line 88 tried at position i (1-based) of s:
\* the matched text and the four capture groups, or NoMatch when it does not
\* match there.  The token class [0-9.] shares no character with what may
\* follow a token (white space, %, /, ")"), so every token is a maximal run
\* and backtracking finds no other match.
oklchMatchAt(s, i) ==
  LET pL == skipSpace(s, i + Len(OklchPrefix))
      eL == skipPercent(s, skipToken(s, pL))
      pC == skipSpace(s, eL)
      pH == tokenThenSpace(s, pC)
      eH == skipToken(s, pH)
      tail == oklchTail(s, skipSpace(s, eH))
  IN IF /\ SubSeq(s, i, i + Len(OklchPrefix) - 1) = OklchPrefix
        /\ skipToken(s, pL) > pL
        /\ pC > eL
        /\ pH > 0
        /\ eH > pH
        /\ tail.last > 0
     THEN [matched |-> TRUE,
           text |-> SubSeq(s, i, tail.last),
           lightnessStr |-> SubSeq(s, pL, eL - 1),
           chromaStr |-> SubSeq(s, pC, skipToken(s, pC) - 1),
           hueStr |-> SubSeq(s, pH, eH - 1),
           alphaStr |-> tail.alphaStr]
     ELSE NoMatch

\* String.prototype.match without the g flag: the leftmost match, searched
\* from position i on.
RECURSIVE oklchMatchFrom(_, _)
oklchMatchFrom(s, i) ==
  IF i > Len(s) THEN NoMatch
  ELSE IF Len(s) - i + 1 >= Len(OklchPrefix) /\ oklchMatchAt(s, i).matched
       THEN oklchMatchAt(s, i)
       ELSE oklchMatchFrom(s, i + 1)

oklchMatch(s) == oklchMatchFrom(s, 1)

\* convertOklchToFigma with the alpha defaulted to 1 when the clause is
\* absent.
convertOklchToFigma_DefaultAlpha(oklchString) ==
  LET match == oklchMatch(oklchString)
      parsed == parseFloat(match.lightnessStr)
      lightness == IF "%" \in {match.lightnessStr[k] :
                                 k \in DOMAIN match.lightnessStr}
                   THEN IF parsed = NaN THEN NaN ELSE parsed \div 100
                   ELSE parsed
      chroma == parseFloat(match.chromaStr)
      hue == parseFloat(match.hueStr)
      alpha == IF match.alphaStr # Undefined
               THEN LET a == parseFloat(match.alphaStr)
                    IN IF a = NaN THEN NaN ELSE a * (One \div Scale)
               ELSE One
      rgbColor == culoriRgb(lightness, chroma, hue)
  IN IF ~match.matched
     THEN Throw("Invalid OKLCH format: ", oklchString)
     ELSE IF rgbColor = NoColor
     THEN Throw("Failed to convert OKLCH to RGB: ", oklchString)
     ELSE Return([r |-> clamp01(rgbColor.r), g |-> clamp01(rgbColor.g),
                  b |-> clamp01(rgbColor.b), a |-> alpha])

\* A variant in which the conversion of a color with a NaN component gives
\* no color, so that the Error of the conversion is thrown.
convertOklchToFigma_RejectsNaN(oklchString) ==
  LET match == oklchMatch(oklchString)
      parsed == parseFloat(match.lightnessStr)
      lightness == IF "%" \in {match.lightnessStr[k] :
                                 k \in DOMAIN match.lightnessStr}
                   THEN IF parsed = NaN THEN NaN ELSE parsed \div 100
                   ELSE parsed
      chroma == parseFloat(match.chromaStr)
      hue == parseFloat(match.hueStr)
      alpha == IF match.alphaStr # Undefined
               THEN LET a == parseFloat(match.alphaStr)
                    IN IF a = NaN THEN NaN ELSE a * (One \div Scale)
               ELSE NaN
      converted == culoriRgb(lightness, chroma, hue)
      rgbColor == IF converted.r = NaN THEN NoColor ELSE converted
      clamped == [r |-> clamp01(rgbColor.r), g |-> clamp01(rgbColor.g),
                  b |-> clamp01(rgbColor.b)]
  IN IF ~match.matched
     THEN Throw("Invalid OKLCH format: ", oklchString)
     ELSE IF rgbColor = NoColor
     THEN Throw("Failed to convert OKLCH to RGB: ", oklchString)
     ELSE IF match.alphaStr # Undefined
     THEN Return([r |-> clamped.r, g |-> clamped.g, b |-> clamped.b,
                  a |-> alpha])
     ELSE Return(clamped)

\* A variant that takes a lightness with % as it is written.
convertOklchToFigma_PercentIgnored(oklchString) ==
  LET match == oklchMatch(oklchString)
      lightness == parseFloat(match.lightnessStr)
      chroma == parseFloat(match.chromaStr)
      hue == parseFloat(match.hueStr)
      alpha == IF match.alphaStr # Undefined
               THEN LET a == parseFloat(match.alphaStr)
                    IN IF a = NaN THEN NaN ELSE a * (One \div Scale)
               ELSE NaN
      rgbColor == culoriRgb(lightness, chroma, hue)
      clamped == [r |-> clamp01(rgbColor.r), g |-> clamp01(rgbColor.g),
                  b |-> clamp01(rgbColor.b)]
  IN IF ~match.matched
     THEN Throw("Invalid OKLCH format: ", oklchString)
     ELSE IF rgbColor = NoColor
     THEN Throw("Failed to convert OKLCH to RGB: ", oklchString)
     ELSE IF match.alphaStr # Undefined
     THEN Return([r |-> clamped.r, g |-> clamped.g, b |-> clamped.b,
                  a |-> alpha])
     ELSE Return(clamped)

\* A variant that clamps alpha to the 0-1 range as it clamps the channels.
convertOklchToFigma_ClampedAlpha(oklchString) ==
  LET match == oklchMatch(oklchString)
      parsed == parseFloat(match.lightnessStr)
      lightness == IF "%" \in {match.lightnessStr[k] :
                                 k \in DOMAIN match.lightnessStr}
                   THEN IF parsed = NaN THEN NaN ELSE parsed \div 100
                   ELSE parsed
      chroma == parseFloat(match.chromaStr)
      hue == parseFloat(match.hueStr)
      alpha == IF match.alphaStr # Undefined
               THEN LET a == parseFloat(match.alphaStr)
                    IN IF a = NaN THEN NaN ELSE a * (One \div Scale)
               ELSE NaN
      rgbColor == culoriRgb(lightness, chroma, hue)
      clamped == [r |-> clamp01(rgbColor.r), g |-> clamp01(rgbColor.g),
                  b |-> clamp01(rgbColor.b)]
  IN IF ~match.matched
     THEN Throw("Invalid OKLCH format: ", oklchString)
     ELSE IF rgbColor = NoColor
     THEN Throw("Failed to convert OKLCH to RGB: ", oklchString)
     ELSE IF match.alphaStr # Undefined
     THEN Return([r |-> clamped.r, g |-> clamped.g, b |-> clamped.b,
                  a |-> clamp01(alpha)])
     ELSE Return(clamped)

convertOklchToFigma(oklchString) ==
  LET match == oklchMatch(oklchString)
      parsed == parseFloat(match.lightnessStr)
      lightness == IF "%" \in {match.lightnessStr[k] :
                                 k \in DOMAIN match.lightnessStr}
                   THEN IF parsed = NaN THEN NaN ELSE parsed \div 100
                   ELSE parsed
      chroma == parseFloat(match.chromaStr)
      hue == parseFloat(match.hueStr)
      alpha == IF match.alphaStr # Undefined
               THEN LET a == parseFloat(match.alphaStr)
                    IN IF a = NaN THEN NaN ELSE a * (One \div Scale)
               ELSE NaN
      rgbColor == culoriRgb(lightness, chroma, hue)
      clamped == [r |-> clamp01(rgbColor.r), g |-> clamp01(rgbColor.g),
                  b |-> clamp01(rgbColor.b)]
  IN IF ~match.matched
     THEN Throw("Invalid OKLCH format: ", oklchString)
     ELSE IF rgbColor = NoColor
     THEN Throw("Failed to convert OKLCH to RGB: ", oklchString)
     ELSE IF match.alphaStr # Undefined
     THEN Return([r |-> clamped.r, g |-> clamped.g, b |-> clamped.b,
                  a |-> alpha])
     ELSE Return(clamped)

(***************************************************************************)
(* convertHexToFigma (color-utils.ts:135-153).                             *)
(***************************************************************************)
\* /^#([0-9a-f])([0-9a-f])([0-9a-f])$/i
isShortHex(s) ==
  Len(s) = 4 /\ s[1] = "#" /\ \A k \in 2..4 : s[k] \in HexDigits

\* /^#([0-9a-f]{6})$/i
isLongHex(s) ==
  Len(s) = 7 /\ s[1] = "#" /\ \A k \in 2..7 : s[k] \in HexDigits

\* convertHexToFigma with the shorthand expanded as $1$2$3$1$2$3.
convertHexToFigma_RepeatedTriple(hex) ==
  LET normalized == IF isShortHex(hex)
                    THEN <<"#", hex[2], hex[3], hex[4], hex[2], hex[3], hex[4]>>
                    ELSE hex
      hexValue == SubSeq(normalized, 2, 7)
      r == parseInt16(SubSeq(hexValue, 1, 2)) * (One \div 255)
      g == parseInt16(SubSeq(hexValue, 3, 4)) * (One \div 255)
      b == parseInt16(SubSeq(hexValue, 5, 6)) * (One \div 255)
  IN IF ~isLongHex(normalized)
     THEN Throw("Invalid hex color: ", hex)
     ELSE Return([r |-> r, g |-> g, b |-> b])

\* convertHexToFigma with the channels divided by 256.
convertHexToFigma_Divide256(hex) ==
  LET normalized == IF isShortHex(hex)
                    THEN <<"#", hex[2], hex[2], hex[3], hex[3], hex[4], hex[4]>>
                    ELSE hex
      hexValue == SubSeq(normalized, 2, 7)
      r == parseInt16(SubSeq(hexValue, 1, 2)) * (One \div 256)
      g == parseInt16(SubSeq(hexValue, 3, 4)) * (One \div 256)
      b == parseInt16(SubSeq(hexValue, 5, 6)) * (One \div 256)
  IN IF ~isLongHex(normalized)
     THEN Throw("Invalid hex color: ", hex)
     ELSE Return([r |-> r, g |-> g, b |-> b])

\* convertHexToFigma with the second pattern not anchored at the end.
convertHexToFigma_Unanchored(hex) ==
  LET normalized == IF isShortHex(hex)
                    THEN <<"#", hex[2], hex[2], hex[3], hex[3], hex[4], hex[4]>>
                    ELSE hex
      hexValue == SubSeq(normalized, 2, 7)
      r == parseInt16(SubSeq(hexValue, 1, 2)) * (One \div 255)
      g == parseInt16(SubSeq(hexValue, 3, 4)) * (One \div 255)
      b == parseInt16(SubSeq(hexValue, 5, 6)) * (One \div 255)
  IN IF ~(Len(normalized) >= 7 /\ isLongHex(SubSeq(normalized, 1, 7)))
     THEN Throw("Invalid hex color: ", hex)
     ELSE Return([r |-> r, g |-> g, b |-> b])

\* A variant whose Error does not name the text.
convertHexToFigma_AnonymousError(hex) ==
  IF isShortHex(hex) \/ isLongHex(hex)
  THEN convertHexToFigma_Unanchored(hex)
  ELSE Throw("Invalid hex color: ", <<>>)

convertHexToFigma(hex) ==
  LET normalized == IF isShortHex(hex)
                    THEN <<"#", hex[2], hex[2], hex[3], hex[3], hex[4], hex[4]>>
                    ELSE hex
      hexValue == SubSeq(normalized, 2, 7)
      r == parseInt16(SubSeq(hexValue, 1, 2)) * (One \div 255)
      g == parseInt16(SubSeq(hexValue, 3, 4)) * (One \div 255)
      b == parseInt16(SubSeq(hexValue, 5, 6)) * (One \div 255)
  IN IF ~isLongHex(normalized)
     THEN Throw("Invalid hex color: ", hex)
     ELSE Return([r |-> r, g |-> g, b |-> b])

(***************************************************************************)
(* resolveColor (color-utils.ts:21-49).                                    *)
(***************************************************************************)
\* "transparent"
Transparent == <<"t", "r", "a", "n", "s", "p", "a", "r", "e", "n", "t">>

RECURSIVE resolveColor(_)

\* resolveColor with transparent returned as opaque black: a is 1.
resolveColor_OpaqueTransparent(v) ==
  LET trimmed == trim(v)
      fallback == extractCssVarFallback(trimmed)
  IN IF trimmed = Transparent
     THEN Return([r |-> 0, g |-> 0, b |-> 0, a |-> One])
     ELSE IF startsWith(trimmed, VarPrefix)
     THEN IF fallback = Null \/ fallback = <<>>
          THEN Throw("Cannot resolve CSS variable without fallback: ", v)
          ELSE resolveColor(fallback)
     ELSE IF startsWith(trimmed, OklchPrefix)
     THEN convertOklchToFigma(trimmed)
     ELSE IF startsWith(trimmed, <<"#">>)
     THEN convertHexToFigma(trimmed)
     ELSE Throw("Unsupported color format: ", v)

\* resolveColor with the fallback compared with null only: the empty
\* fallback is resolved like any other.
resolveColor_NullCheckOnly(v) ==
  LET trimmed == trim(v)
      fallback == extractCssVarFallback(trimmed)
  IN IF trimmed = Transparent
     THEN Return([r |-> 0, g |-> 0, b |-> 0, a |-> 0])
     ELSE IF startsWith(trimmed, VarPrefix)
     THEN IF fallback = Null
          THEN Throw("Cannot resolve CSS variable without fallback: ", v)
          ELSE resolveColor(fallback)
     ELSE IF startsWith(trimmed, OklchPrefix)
     THEN convertOklchToFigma(trimmed)
     ELSE IF startsWith(trimmed, <<"#">>)
     THEN convertHexToFigma(trimmed)
     ELSE Throw("Unsupported color format: ", v)

\* resolveColor with the hex branch taken when the text contains a #.
resolveColor_HexAnywhere(v) ==
  LET trimmed == trim(v)
      fallback == extractCssVarFallback(trimmed)
  IN IF trimmed = Transparent
     THEN Return([r |-> 0, g |-> 0, b |-> 0, a |-> 0])
     ELSE IF startsWith(trimmed, VarPrefix)
     THEN IF fallback = Null \/ fallback = <<>>
          THEN Throw("Cannot resolve CSS variable without fallback: ", v)
          ELSE resolveColor(fallback)
     ELSE IF startsWith(trimmed, OklchPrefix)
     THEN convertOklchToFigma(trimmed)
     ELSE IF \E k \in 1..Len(trimmed) : trimmed[k] = "#"
     THEN convertHexToFigma(trimmed)
     ELSE Throw("Unsupported color format: ", v)

\* A variant that follows one var() reference only: a fallback that is a
\* var() reference itself is not resolved.
resolveColor_SingleLevel(v) ==
  LET trimmed == trim(v)
      fallback == extractCssVarFallback(trimmed)
  IN IF trimmed = Transparent
     THEN Return([r |-> 0, g |-> 0, b |-> 0, a |-> 0])
     ELSE IF startsWith(trimmed, VarPrefix)
     THEN IF fallback = Null \/ fallback = <<>>
          THEN Throw("Cannot resolve CSS variable without fallback: ", v)
          ELSE IF startsWith(trim(fallback), VarPrefix)
          THEN Throw("Unsupported color format: ", fallback)
          ELSE resolveColor(fallback)
     ELSE IF startsWith(trimmed, OklchPrefix)
     THEN convertOklchToFigma(trimmed)
     ELSE IF startsWith(trimmed, <<"#">>)
     THEN convertHexToFigma(trimmed)
     ELSE Throw("Unsupported color format: ", v)

\* A variant with a memory: once a call has returned a color, a var()
\* reference is answered with the color of that earlier call.
resolveColor_RemembersLast(v) ==
  LET trimmed == trim(v)
      fallback == extractCssVarFallback(trimmed)
  IN IF trimmed = Transparent
     THEN Return([r |-> 0, g |-> 0, b |-> 0, a |-> 0])
     ELSE IF startsWith(trimmed, VarPrefix)
     THEN IF result.ok
          THEN result
          ELSE IF fallback = Null \/ fallback = <<>>
          THEN Throw("Cannot resolve CSS variable without fallback: ", v)
          ELSE resolveColor(fallback)
     ELSE IF startsWith(trimmed, OklchPrefix)
     THEN convertOklchToFigma(trimmed)
     ELSE IF startsWith(trimmed, <<"#">>)
     THEN convertHexToFigma(trimmed)
     ELSE Throw("Unsupported color format: ", v)

resolveColor(v) ==
  LET trimmed == trim(v)
      fallback == extractCssVarFallback(trimmed)
  IN IF trimmed = Transparent
     THEN Return([r |-> 0, g |-> 0, b |-> 0, a |-> 0])
     ELSE IF startsWith(trimmed, VarPrefix)
     THEN IF fallback = Null \/ fallback = <<>>
          THEN Throw("Cannot resolve CSS variable without fallback: ", v)
          ELSE resolveColor(fallback)
     ELSE IF startsWith(trimmed, OklchPrefix)
     THEN convertOklchToFigma(trimmed)
     ELSE IF startsWith(trimmed, <<"#">>)
     THEN convertHexToFigma(trimmed)
     ELSE Throw("Unsupported color format: ", v)

\* The expression that the chain of var() fallbacks of v ends in: the
\* trimmed argument of the last call of resolveColor.
RECURSIVE resolvedExpression(_)
resolvedExpression(v) ==
  LET trimmed == trim(v)
      fallback == extractCssVarFallback(trimmed)
  IN IF trimmed # Transparent /\ startsWith(trimmed, VarPrefix)
        /\ fallback # Null /\ fallback # <<>>
     THEN resolvedExpression(fallback)
     ELSE trimmed

\* The number of recursive calls that resolveColor(v) makes: one for each
\* var() reference whose fallback it resolves.
RECURSIVE recursiveSteps(_)
recursiveSteps(v) ==
  LET trimmed == trim(v)
      fallback == extractCssVarFallback(trimmed)
  IN IF trimmed # Transparent /\ startsWith(trimmed, VarPrefix)
        /\ fallback # Null /\ fallback # <<>>
     THEN 1 + recursiveSteps(fallback)
     ELSE 0

(***************************************************************************)
(* The build-time sync runner: process.env, the file scripts/.env and the  *)
(* functions that read them.  process.env is a function from the names of  *)
(* the variables that are set to their values.                             *)
(***************************************************************************)
FIGMA_TOKEN == <<"F", "I", "G", "M", "A", "_", "T", "O", "K", "E", "N">>

KUMO_FIGMA_SKIP_SYNC ==
  <<"K", "U", "M", "O", "_", "F", "I", "G", "M", "A", "_",
    "S", "K", "I", "P", "_", "S", "Y", "N", "C">>

\* existsSync(ENV_PATH) is false.
NoFile == <<"no file">>

\* result.status of a child that was ended by a signal or never ran: null.
NullStatus == 0 - 1

\* process.env[key]: undefined when the variable is not set.
envGet(env, key) == IF key \in DOMAIN env THEN env[key] ELSE Undefined

\* process.env[key] = val.
envSet(env, key, val) ==
  [k \in DOMAIN env \cup {key} |-> IF k = key THEN val ELSE env[k]]

\* !x of a string or undefined.
falsy(x) == x = Undefined \/ x = <<>>

\* String.prototype.toLowerCase on the letters the model uses.
toLowerCase(str) ==
  LET lower(ch) == CASE ch = "T" -> "t" [] ch = "R" -> "r" [] ch = "U" -> "u"
                     [] ch = "E" -> "e" [] ch = "Y" -> "y" [] ch = "S" -> "s"
                     [] ch = "I" -> "i" [] ch = "K" -> "k" [] ch = "P" -> "p"
                     [] OTHER -> ch
  IN [k \in DOMAIN str |-> lower(str[k])]

\* The position of the first sep in str, 0 when there is none.
indexOf(str, sep) ==
  IF \E k \in 1..Len(str) : str[k] = sep
  THEN CHOOSE k \in 1..Len(str) :
         str[k] = sep /\ \A j \in 1..(k - 1) : str[j] # sep
  ELSE 0

\* String.prototype.split(sep) with a separator of one character.
RECURSIVE split(_, _)
split(str, sep) ==
  IF indexOf(str, sep) = 0
  THEN <<str>>
  ELSE <<SubSeq(str, 1, indexOf(str, sep) - 1)>>
         \o split(SubSeq(str, indexOf(str, sep) + 1, Len(str)), sep)

\* Array.prototype.join(sep).
RECURSIVE join(_, _)
join(parts, sep) ==
  IF Len(parts) = 0 THEN <<>>
  ELSE IF Len(parts) = 1 THEN parts[1]
  ELSE parts[1] \o <<sep>> \o join(Tail(parts), sep)

Quotes == {"\"", "'"}

\* replace(/^["']|["']$/g, ""): one quote at the start and one at the end
\* are removed.
stripQuotes(str) ==
  LET rest == IF At(str, 1) \in Quotes THEN Tail(str) ELSE str
  IN IF At(rest, Len(rest)) \in Quotes
     THEN SubSeq(rest, 1, Len(rest) - 1)
     ELSE rest

\* One turn of the loop of loadDotEnvIfPresent: process.env after the line.
loadLine(env, line) ==
  LET trimmed == trim(line)
      parts == split(trimmed, "=")
      key == Head(parts)
      val == stripQuotes(join(Tail(parts), "="))
  IN IF Len(trimmed) = 0 THEN env
     ELSE IF startsWith(trimmed, <<"#">>) THEN env
     ELSE IF falsy(key) \/ falsy(val) THEN env
     ELSE IF falsy(envGet(env, key)) THEN envSet(env, key, val)
     ELSE env

\* The loop of loadDotEnvIfPresent over the lines of the file.
RECURSIVE loadLines(_, _)
loadLines(env, lines) ==
  IF Len(lines) = 0 THEN env
  ELSE loadLines(loadLine(env, Head(lines)), Tail(lines))

\* process.env after loadDotEnvIfPresent() with the given file.
loadDotEnvIfPresent(env, file) ==
  IF file = NoFile THEN env ELSE loadLines(env, split(file, "\n"))

\* shouldSkipSync without toLowerCase.
shouldSkipSync_CaseSensitive(env) ==
  LET set == envGet(env, KUMO_FIGMA_SKIP_SYNC)
      val == IF falsy(set) THEN <<>> ELSE set
  IN val = <<"1">> \/ val = <<"t", "r", "u", "e">> \/ val = <<"y", "e", "s">>

shouldSkipSync(env) ==
  LET set == envGet(env, KUMO_FIGMA_SKIP_SYNC)
      val == toLowerCase(IF falsy(set) THEN <<>> ELSE set)
  IN val = <<"1">> \/ val = <<"t", "r", "u", "e">> \/ val = <<"y", "e", "s">>

\* The runner has not been started.
RunnerIdle ==
  /\ environ = <<>>
  /\ processEnv = <<>>
  /\ dotEnv = NoFile
  /\ runnerPc = "idle"
  /\ started = FALSE
  /\ status = NullStatus
  /\ exitCode = NullStatus

(***************************************************************************)
(* The Figma document of the plugin: pages is figma.root.children, a page  *)
(* is a record of its id, its name and the ids of its child nodes.         *)
(***************************************************************************)
UI_KIT_PAGE_NAME == <<"u", "i", " ", "k", "i", "t">>

\* The callback of find: the page is the UI kit page.
isUiKitPage(page) == toLowerCase(trim(page.name)) = UI_KIT_PAGE_NAME

\* The ids of the pages that the filter callback lets through, in the order
\* of the document.
otherPages_ByName(doc, id) ==
  LET kept == SelectSeq(doc, LAMBDA page : ~isUiKitPage(page))
  IN [k \in DOMAIN kept |-> kept[k].id]

otherPages(doc, id) ==
  LET kept == SelectSeq(doc, LAMBDA page : page.id # id)
  IN [k \in DOMAIN kept |-> kept[k].id]

\* The document after page.remove() of the page with the id.
removePage(doc, id) == SelectSeq(doc, LAMBDA page : page.id # id)

\* The document after node.remove() of a child of the page with the id.
removeNode(doc, id, node) ==
  [k \in DOMAIN doc |->
     IF doc[k].id = id
     THEN [doc[k] EXCEPT !.children = SelectSeq(@, LAMBDA n : n # node)]
     ELSE doc[k]]

\* The page of the document with the id.
pageOf(doc, id) == doc[CHOOSE k \in DOMAIN doc : doc[k].id = id]

\* An id that no page of the document has.
freshId(doc) == Len(doc) + 1

\* The plugin has not been started.
DocumentIdle ==
  /\ pages = <<>>
  /\ currentPage = 0
  /\ syncPc = "idle"
  /\ uiKitPage = 0
  /\ pagesToRemove = <<>>
  /\ children = <<>>
  /\ returnedPage = 0

(***************************************************************************)
(* The message handler of the Figma plugin: the generator registry and    *)
(* its order.                                                              *)
(***************************************************************************)
START_Y == 100

\* The registry, in the order of the source; no entry sets priority.
GENERATORS ==
  <<
     [name |-> <<"B", "a", "d", "g", "e">>, priority |-> FALSE],
     [name |-> <<"B", "a", "n", "n", "e", "r">>, priority |-> FALSE],
     [name |-> <<"B", "r", "e", "a", "d", "c", "r", "u", "m", "b", "s">>, priority |-> FALSE],
     [name |-> <<"B", "u", "t", "t", "o", "n">>, priority |-> FALSE],
     [name |-> <<"C", "h", "e", "c", "k", "b", "o", "x">>, priority |-> FALSE],
     [name |-> <<"C", "l", "i", "p", "b", "o", "a", "r", "d", "T", "e", "x", "t">>, priority |-> FALSE],
     [name |-> <<"C", "o", "d", "e">>, priority |-> FALSE],
     [name |-> <<"C", "o", "d", "e", "B", "l", "o", "c", "k">>, priority |-> FALSE],
     [name |-> <<"C", "o", "l", "l", "a", "p", "s", "i", "b", "l", "e">>, priority |-> FALSE],
     [name |-> <<"C", "o", "m", "b", "o", "b", "o", "x">>, priority |-> FALSE],
     [name |-> <<"C", "o", "m", "m", "a", "n", "d", "P", "a", "l", "e", "t", "t", "e">>, priority |-> FALSE],
     [name |-> <<"D", "a", "t", "e", "R", "a", "n", "g", "e", "P", "i", "c", "k", "e", "r">>, priority |-> FALSE],
     [name |-> <<"D", "i", "a", "l", "o", "g">>, priority |-> FALSE],
     [name |-> <<"D", "r", "o", "p", "d", "o", "w", "n">>, priority |-> FALSE],
     [name |-> <<"E", "m", "p", "t", "y">>, priority |-> FALSE],
     [name |-> <<"I", "n", "p", "u", "t">>, priority |-> FALSE],
     [name |-> <<"I", "n", "p", "u", "t", "A", "r", "e", "a">>, priority |-> FALSE],
     [name |-> <<"L", "a", "b", "e", "l">>, priority |-> FALSE],
     [name |-> <<"L", "a", "y", "e", "r", "C", "a", "r", "d">>, priority |-> FALSE],
     [name |-> <<"L", "i", "n", "k">>, priority |-> FALSE],
     [name |-> <<"L", "i", "n", "k", "B", "u", "t", "t", "o", "n">>, priority |-> FALSE],
     [name |-> <<"L", "o", "a", "d", "e", "r">>, priority |-> FALSE],
     [name |-> <<"M", "e", "n", "u", "B", "a", "r">>, priority |-> FALSE],
     [name |-> <<"M", "e", "t", "e", "r">>, priority |-> FALSE],
     [name |-> <<"P", "a", "g", "i", "n", "a", "t", "i", "o", "n">>, priority |-> FALSE],
     [name |-> <<"R", "a", "d", "i", "o">>, priority |-> FALSE],
     [name |-> <<"R", "a", "d", "i", "o", ".", "G", "r", "o", "u", "p">>, priority |-> FALSE],
     [name |-> <<"R", "e", "f", "r", "e", "s", "h", "B", "u", "t", "t", "o", "n">>, priority |-> FALSE],
     [name |-> <<"S", "e", "l", "e", "c", "t">>, priority |-> FALSE],
     [name |-> <<"S", "e", "n", "s", "i", "t", "i", "v", "e", "I", "n", "p", "u", "t">>, priority |-> FALSE],
     [name |-> <<"S", "u", "r", "f", "a", "c", "e">>, priority |-> FALSE],
     [name |-> <<"S", "w", "i", "t", "c", "h">>, priority |-> FALSE],
     [name |-> <<"S", "w", "i", "t", "c", "h", ".", "G", "r", "o", "u", "p">>, priority |-> FALSE],
     [name |-> <<"T", "a", "b", "l", "e">>, priority |-> FALSE],
     [name |-> <<"T", "a", "b", "s">>, priority |-> FALSE],
     [name |-> <<"T", "e", "x", "t">>, priority |-> FALSE],
     [name |-> <<"T", "o", "a", "s", "t">>, priority |-> FALSE],
     [name |-> <<"T", "o", "o", "l", "t", "i", "p">>, priority |-> FALSE]
  >>

LowerCase ==
  <<"a", "b", "c", "d", "e", "f", "g", "h", "i", "j", "k", "l", "m",
    "n", "o", "p", "q", "r", "s", "t", "u", "v", "w", "x", "y", "z">>

UpperCase ==
  <<"A", "B", "C", "D", "E", "F", "G", "H", "I", "J", "K", "L", "M",
    "N", "O", "P", "Q", "R", "S", "T", "U", "V", "W", "X", "Y", "Z">>

\* The primary weight of a character in the collation of localeCompare:
\* punctuation comes before the letters, a capital weighs as its letter.
primaryWeight(ch) ==
  IF \E k \in 1..26 : LowerCase[k] = ch \/ UpperCase[k] = ch
  THEN CHOOSE k \in 1..26 : LowerCase[k] = ch \/ UpperCase[k] = ch
  ELSE 0

\* The comparison of the primary weights of a and b from position k on; a
\* string comes before the strings that it begins.
RECURSIVE comparePrimary(_, _, _)
comparePrimary(a, b, k) ==
  IF k > Len(a) /\ k > Len(b) THEN 0
  ELSE IF k > Len(a) THEN 0 - 1
  ELSE IF k > Len(b) THEN 1
  ELSE IF primaryWeight(a[k]) < primaryWeight(b[k]) THEN 0 - 1
  ELSE IF primaryWeight(a[k]) > primaryWeight(b[k]) THEN 1
  ELSE comparePrimary(a, b, k + 1)

\* The comparison of the case of a and b, which have the same primary
\* weights: at the first difference the small letter comes first.
RECURSIVE compareCase(_, _, _)
compareCase(a, b, k) ==
  IF k > Len(a) THEN 0
  ELSE IF a[k] = b[k] THEN compareCase(a, b, k + 1)
  ELSE IF \E j \in 1..26 : LowerCase[j] = a[k] THEN 0 - 1 ELSE 1

\* a.localeCompare(b).
localeCompare(a, b) ==
  IF comparePrimary(a, b, 1) # 0 THEN comparePrimary(a, b, 1)
  ELSE compareCase(a, b, 1)

\* The comparator of the sort.
compareGenerators(a, b) ==
  IF a.priority /\ ~b.priority THEN 0 - 1
  ELSE IF ~a.priority /\ b.priority THEN 1
  ELSE localeCompare(a.name, b.name)

\* The sorted list with one more entry: Array.prototype.sort is stable, the
\* entry goes behind the entries that do not come after it.
RECURSIVE insertSorted(_, _)
insertSorted(list, entry) ==
  IF list = <<>> THEN <<entry>>
  ELSE IF compareGenerators(list[Len(list)], entry) <= 0 THEN Append(list, entry)
  ELSE Append(insertSorted(SubSeq(list, 1, Len(list) - 1), entry), list[Len(list)])

\* [...list].sort(compareGenerators)
RECURSIVE sort(_)
sort(list) ==
  IF list = <<>> THEN <<>>
  ELSE insertSorted(sort(SubSeq(list, 1, Len(list) - 1)), list[Len(list)])

sortedGenerators == sort(GENERATORS)

TOTAL_COMPONENTS == Len(sortedGenerators)

\* The message that closes the plugin after the last generator.
completionMessage == <<"Generation complete - created", TOTAL_COMPONENTS>>

\* The document without the pages of the given ids.
RECURSIVE removePages(_, _)
removePages(doc, ids) ==
  IF ids = <<>> THEN doc ELSE removePages(removePage(doc, Head(ids)), Tail(ids))

\* The document without the given nodes of the page.
RECURSIVE removeNodes(_, _, _)
removeNodes(doc, id, nodes) ==
  IF nodes = <<>> THEN doc
  ELSE removeNodes(removeNode(doc, id, Head(nodes)), id, Tail(nodes))

\* The id of the page that destructiveSyncPages finds or creates.
syncedPage(doc) ==
  IF \E k \in DOMAIN doc : isUiKitPage(doc[k])
  THEN doc[CHOOSE k \in DOMAIN doc :
             /\ isUiKitPage(doc[k])
             /\ \A j \in 1..(k - 1) : ~isUiKitPage(doc[j])].id
  ELSE freshId(doc)

\* The document that a whole run of destructiveSyncPages leaves.
destructiveSyncPages(doc) ==
  LET withKit == IF \E k \in DOMAIN doc : isUiKitPage(doc[k])
                 THEN doc
                 ELSE Append(doc, [id |-> freshId(doc), name |-> UI_KIT_PAGE_NAME,
                                   children |-> <<>>])
      kept == removePages(withKit, otherPages(withKit, syncedPage(doc)))
  IN removeNodes(kept, syncedPage(doc), pageOf(kept, syncedPage(doc)).children)

(***************************************************************************)
(* The user interface code at rest.                                        *)
(***************************************************************************)
\* No message has reached the plugin.
PluginIdle ==
  /\ handlers = <<>>
  /\ received = 0
  /\ closes = 0
  /\ closeMessage = <<>>
  /\ errorNotified = FALSE

\* No FlowDiagram is mounted.
DiagramIdle ==
  /\ panX = 0
  /\ panY = 0
  /\ bounds = <<>>
  /\ listenerBounds = <<>>
  /\ effectPending = FALSE
  /\ isPanning = FALSE
  /\ gesture = "none"
  /\ cursor = ""
  /\ userSelect = ""
  /\ mounted = FALSE

\* No Pagination is rendered.
PaginationIdle ==
  /\ pageNumber = 1
  /\ perPage = 1
  /\ totalCount = 0
  /\ editingPage = 1
  /\ setPageCall = <<>>

UiIdle == PluginIdle /\ DiagramIdle /\ PaginationIdle

(***************************************************************************)
(* The callers: a color expression is put together from pieces of CSS text *)
(* and handed to resolveColor.                                             *)
(***************************************************************************)
Pieces ==
  { <<" ">>,
    Transparent,
    VarPrefix,
    <<"-", "-", "x">>,
    <<",">>,
    <<")">>,
    <<"#">>,
    <<"a">>,
    <<"F">>,
    <<"0", "8", "b", "E">>,
    OklchPrefix,
    <<".", "5", " ", "0", " ", "0">>,
    <<"9", "0", "%", " ", ".", "4", " ", "3", "0">>,
    <<"/", "2">>,
    <<".">>,
    <<"r", "g", "b", "(", "0", ",", "0", ",", "0", ")">> }

\* No call has been made yet.
Pending == Throw("", <<>>)

\* No caller of resolveColor has done anything.
ResolverIdle ==
  /\ value = <<>>
  /\ built = 0
  /\ pc = "compose"
  /\ result = Pending
  /\ calls = <<>>

Init ==
  /\ ResolverIdle
  /\ RunnerIdle
  /\ DocumentIdle
  /\ UiIdle

\* The caller appends one more piece to the expression.
Compose(piece) ==
  /\ pc = "compose"
  /\ built < MaxPieces
  /\ value' = value \o piece
  /\ built' = built + 1
  /\ UNCHANGED <<pc, result, calls, runnerVars, documentVars, uiVars>>

\* The caller calls resolveColor(value); the call returns or throws.
Call ==
  /\ pc = "compose"
  /\ result' = resolveColor(value)
  /\ pc' = "returned"
  /\ UNCHANGED <<value, built, calls, runnerVars, documentVars, uiVars>>

Next ==
  \/ \E piece \in Pieces : Compose(piece)
  \/ Call

Spec == Init /\ [][Next]_vars

(***************************************************************************)
(* A caller that puts a var() reference together from a name, a fallback,  *)
(* commas and parentheses, and hands it to resolveColor.                   *)
(***************************************************************************)
VarPieces ==
  { VarPrefix,
    <<"-", "-", "x">>,
    <<",">>,
    <<")">>,
    <<" ">>,
    <<"#", "a", "F", "F">>,
    <<"r", "g", "b", "(", "0", ",", "0", ",", "0", ")">> }

\* The caller appends one more piece to the var() reference.
ComposeVar(piece) ==
  /\ pc = "compose"
  /\ built < MaxVarPieces
  /\ value' = value \o piece
  /\ built' = built + 1
  /\ UNCHANGED <<pc, result, calls, runnerVars, documentVars, uiVars>>

NextVar ==
  \/ \E piece \in VarPieces : ComposeVar(piece)
  \/ Call

SpecVar == Init /\ [][NextVar]_vars

(***************************************************************************)
(* A caller that puts an oklch() expression together from the three        *)
(* components and an alpha clause.                                         *)
(***************************************************************************)
OklchPieces ==
  { OklchPrefix,
    <<".", "5", " ", "0", " ", "0">>,
    <<"9", "0", "%", " ", ".", "4", " ", "3", "0">>,
    <<"/", "0">>,
    <<"/", " ", ".", "5">>,
    <<"/", "1">>,
    <<"/", "2">>,
    <<".">>,
    <<" ">>,
    <<")">> }

\* The caller appends one more piece to the oklch() expression.
ComposeOklch(piece) ==
  /\ pc = "compose"
  /\ built < MaxOklchPieces
  /\ value' = value \o piece
  /\ built' = built + 1
  /\ UNCHANGED <<pc, result, calls, runnerVars, documentVars, uiVars>>

NextOklch ==
  \/ \E piece \in OklchPieces : ComposeOklch(piece)
  \/ Call

SpecOklch == Init /\ [][NextOklch]_vars

(***************************************************************************)
(* A caller that resolves an oklch() expression whose lightness is written *)
(* with or without the % sign.                                             *)
(***************************************************************************)
LightnessChars == {"0", "5", "9", "."}

\* The lightness tokens: up to MaxDigits digits and points.
LightnessTokens ==
  UNION {[1..n -> LightnessChars] : n \in 1..MaxDigits}

\* Chroma and hue.
ChromaHue ==
  { <<" ", "0", " ", "0">>,
    <<" ", ".", "4", " ", "3", "0">> }

LightnessExpressions ==
  { OklchPrefix \o token \o sign \o rest \o <<")">> :
      token \in LightnessTokens, sign \in {<<>>, <<"%">>}, rest \in ChromaHue }

InitLightness ==
  /\ value \in LightnessExpressions
  /\ built = 0
  /\ pc = "compose"
  /\ result = Pending
  /\ calls = <<>>
  /\ RunnerIdle
  /\ DocumentIdle
  /\ UiIdle

NextLightness == Call

SpecLightness == InitLightness /\ [][NextLightness]_vars

(***************************************************************************)
(* A caller that nests var() references and parenthesised groups into      *)
(* each other.                                                             *)
(***************************************************************************)
NestPieces ==
  { VarPrefix \o <<"-", "-", "x", ")">>,
    VarPrefix \o <<"-", "-", "y", ",">>,
    <<"(">>,
    <<",">>,
    <<"#", "a", "F", "F">>,
    <<")">> }

\* The caller appends one more piece to the expression.
ComposeNest(piece) ==
  /\ pc = "compose"
  /\ built < MaxNestPieces
  /\ value' = value \o piece
  /\ built' = built + 1
  /\ UNCHANGED <<pc, result, calls, runnerVars, documentVars, uiVars>>

NextNest ==
  \/ \E piece \in NestPieces : ComposeNest(piece)
  \/ Call

SpecNest == Init /\ [][NextNest]_vars

(***************************************************************************)
(* A caller that resolves several expressions one after the other, as the  *)
(* generators do for the tokens of a theme.  calls records each call with  *)
(* its argument and its outcome.                                           *)
(***************************************************************************)
Expressions ==
  { Transparent,
    <<"#", "a", "F", "F">>,
    OklchPrefix \o <<".", "5", " ", "0", " ", "0", "/", "2", ")">>,
    VarPrefix \o <<"-", "-", "x", ",", " ", "#", "a", "F", "F", ")">>,
    VarPrefix \o <<"-", "-", "x", ")">>,
    <<"r", "g", "b", "(", "0", ",", "0", ",", "0", ")">> }

\* The caller calls resolveColor(input); the call returns or throws.
CallWith(input) ==
  /\ Len(calls) < MaxCalls
  /\ value' = input
  /\ result' = resolveColor(input)
  /\ calls' = Append(calls, [input |-> input, outcome |-> result'])
  /\ pc' = "returned"
  /\ UNCHANGED <<built, runnerVars, documentVars, uiVars>>

NextCalls == \E input \in Expressions : CallWith(input)

SpecCalls == Init /\ [][NextCalls]_vars

(***************************************************************************)
(* A run of the build-time sync runner: main() with some environment and   *)
(* some scripts/.env, up to the exit of the process.                       *)
(***************************************************************************)
\* Settings of KUMO_FIGMA_SKIP_SYNC; Undefined: the variable is not set.
SkipSettings ==
  { Undefined, <<>>, <<"1">>, <<"0">>, <<" ", "1">>, <<"n", "o">>,
    <<"t", "r", "u", "e">>, <<"T", "R", "U", "E">>, <<"Y", "e", "s">> }

\* Settings of FIGMA_TOKEN; Undefined: the variable is not set.
TokenSettings == {Undefined, <<>>, <<"t">>}

\* The process environment with the two settings.
environment(skip, token) ==
  LET withSkip == IF skip = Undefined THEN <<>>
                  ELSE envSet(<<>>, KUMO_FIGMA_SKIP_SYNC, skip)
  IN IF token = Undefined THEN withSkip
     ELSE envSet(withSkip, FIGMA_TOKEN, token)

\* Lines of a .env file.
EnvLines ==
  { <<>>,
    FIGMA_TOKEN \o <<"=", "t">>,
    FIGMA_TOKEN \o <<"=", "\"", "t", "\"">>,
    FIGMA_TOKEN \o <<"=">>,
    FIGMA_TOKEN \o <<"=", "'", "'">>,
    FIGMA_TOKEN \o <<" ", "=", " ", "t">>,
    <<" ">> \o FIGMA_TOKEN \o <<"=", "u", "=", "v", " ">>,
    <<"#">> \o FIGMA_TOKEN \o <<"=", "t">>,
    KUMO_FIGMA_SKIP_SYNC \o <<"=", "1">> }

\* The .env files of up to MaxLines lines, and no file.
DotEnvFiles ==
  {NoFile} \cup
    { join(lines, "\n") :
        lines \in UNION {[1..n -> EnvLines] : n \in 0..MaxLines} }

\* Statuses of the child process; NullStatus: ended by a signal.
ChildStatuses == {NullStatus, 0, 1, 2}

InitSync ==
  /\ ResolverIdle
  /\ DocumentIdle
  /\ UiIdle
  /\ environ \in { environment(skip, token) :
                      skip \in SkipSettings, token \in TokenSettings }
  /\ processEnv = environ
  /\ dotEnv \in DotEnvFiles
  /\ runnerPc = "main"
  /\ started = FALSE
  /\ status = NullStatus
  /\ exitCode = NullStatus

\* main returns at once: the skip variable is set.
SkipSync ==
  /\ runnerPc = "main"
  /\ shouldSkipSync(processEnv)
  /\ runnerPc' = "exited"
  /\ exitCode' = 0
  /\ UNCHANGED <<environ, processEnv, dotEnv, started, status, resolverVars, documentVars,
                 uiVars>>

\* main goes on and reads scripts/.env.
LoadDotEnv ==
  /\ runnerPc = "main"
  /\ ~shouldSkipSync(processEnv)
  /\ processEnv' = loadDotEnvIfPresent(processEnv, dotEnv)
  /\ runnerPc' = "loaded"
  /\ UNCHANGED <<environ, dotEnv, started, status, exitCode, resolverVars, documentVars,
                 uiVars>>

\* main returns: there is no FIGMA_TOKEN.
SkipNoToken ==
  /\ runnerPc = "loaded"
  /\ falsy(envGet(processEnv, FIGMA_TOKEN))
  /\ runnerPc' = "exited"
  /\ exitCode' = 0
  /\ UNCHANGED <<environ, processEnv, dotEnv, started, status, resolverVars, documentVars,
                 uiVars>>

\* main starts pnpm run figma:sync and waits for it.
RunSync ==
  /\ runnerPc = "loaded"
  /\ ~falsy(envGet(processEnv, FIGMA_TOKEN))
  /\ started' = TRUE
  /\ runnerPc' = "spawned"
  /\ UNCHANGED <<environ, processEnv, dotEnv, status, exitCode, resolverVars, documentVars,
                 uiVars>>

\* The child ends with the status st: main exits with a status that is a
\* number other than 0 and returns otherwise.
SyncExits(st) ==
  /\ runnerPc = "spawned"
  /\ status' = st
  /\ exitCode' = IF st # NullStatus /\ st # 0 THEN st ELSE 0
  /\ runnerPc' = "exited"
  /\ UNCHANGED <<environ, processEnv, dotEnv, started, resolverVars, documentVars,
                 uiVars>>

NextSync ==
  \/ SkipSync
  \/ LoadDotEnv
  \/ SkipNoToken
  \/ RunSync
  \/ \E st \in ChildStatuses : SyncExits(st)

SpecSync == InitSync /\ [][NextSync]_vars

(***************************************************************************)
(* A run of destructiveSyncPages on some document, up to its return.       *)
(***************************************************************************)
PageNames ==
  { UI_KIT_PAGE_NAME,
    <<" ", "U", "I", " ", "K", "i", "t", " ">>,
    <<"P", "a", "g", "e">> }

\* The child nodes of a page: up to MaxNodes nodes.
NodeLists == {[k \in 1..n |-> k] : n \in 0..MaxNodes}

\* The documents of 1 to MaxPages pages; the id of a page is its position.
Documents ==
  UNION { { [k \in 1..n |-> [id |-> k, name |-> names[k], children |-> nodes[k]]] :
              names \in [1..n -> PageNames], nodes \in [1..n -> NodeLists] } :
          n \in 1..MaxPages }

InitPages ==
  /\ ResolverIdle
  /\ RunnerIdle
  /\ UiIdle
  /\ pages \in Documents
  /\ currentPage \in 1..Len(pages)
  /\ syncPc = "find"
  /\ uiKitPage = 0
  /\ pagesToRemove = <<>>
  /\ children = <<>>
  /\ returnedPage = 0

\* Step 1: the first page with the name of the UI kit is found.
FindPage ==
  /\ syncPc = "find"
  /\ \E k \in DOMAIN pages : isUiKitPage(pages[k])
  /\ uiKitPage' = pages[CHOOSE k \in DOMAIN pages :
                           /\ isUiKitPage(pages[k])
                           /\ \A j \in 1..(k - 1) : ~isUiKitPage(pages[j])].id
  /\ syncPc' = "switch"
  /\ UNCHANGED <<pages, currentPage, pagesToRemove, children, returnedPage,
                 resolverVars, runnerVars,
                 uiVars>>

\* Step 1: no page has the name, figma.createPage() adds the UI kit page.
CreatePage ==
  /\ syncPc = "find"
  /\ ~\E k \in DOMAIN pages : isUiKitPage(pages[k])
  /\ pages' = Append(pages, [id |-> freshId(pages), name |-> UI_KIT_PAGE_NAME,
                              children |-> <<>>])
  /\ uiKitPage' = freshId(pages)
  /\ syncPc' = "switch"
  /\ UNCHANGED <<currentPage, pagesToRemove, children, returnedPage,
                 resolverVars, runnerVars,
                 uiVars>>

\* The other pages are collected while the current page stays what it was.
SwitchPage_StaysOnPage ==
  /\ syncPc = "switch"
  /\ pagesToRemove' = otherPages(pages, uiKitPage)
  /\ syncPc' = "remove"
  /\ UNCHANGED <<pages, currentPage, uiKitPage, children, returnedPage,
                 resolverVars, runnerVars,
                 uiVars>>

\* The UI kit page becomes the current page, and the other pages are
\* collected.
SwitchPage ==
  /\ syncPc = "switch"
  /\ currentPage' = IF currentPage # uiKitPage THEN uiKitPage ELSE currentPage
  /\ pagesToRemove' = otherPages(pages, uiKitPage)
  /\ syncPc' = "remove"
  /\ UNCHANGED <<pages, uiKitPage, children, returnedPage,
                 resolverVars, runnerVars,
                 uiVars>>

\* Step 2, one turn of the loop: page.remove().  Figma throws when the page
\* is the current page.
RemovePage ==
  /\ syncPc = "remove"
  /\ pagesToRemove # <<>>
  /\ IF Head(pagesToRemove) = currentPage
     THEN syncPc' = "threw" /\ UNCHANGED <<pages, pagesToRemove>>
     ELSE /\ pages' = removePage(pages, Head(pagesToRemove))
          /\ pagesToRemove' = Tail(pagesToRemove)
          /\ UNCHANGED syncPc
  /\ UNCHANGED <<currentPage, uiKitPage, children, returnedPage,
                 resolverVars, runnerVars,
                 uiVars>>

\* Step 3: the children of the UI kit page are copied.
CopyChildren ==
  /\ syncPc = "remove"
  /\ pagesToRemove = <<>>
  /\ children' = pageOf(pages, uiKitPage).children
  /\ syncPc' = "purge"
  /\ UNCHANGED <<pages, currentPage, uiKitPage, pagesToRemove, returnedPage,
                 resolverVars, runnerVars,
                 uiVars>>

\* Step 3, one turn of the loop: node.remove().
RemoveNode ==
  /\ syncPc = "purge"
  /\ children # <<>>
  /\ pages' = removeNode(pages, uiKitPage, Head(children))
  /\ children' = Tail(children)
  /\ UNCHANGED <<currentPage, syncPc, uiKitPage, pagesToRemove, returnedPage,
                 resolverVars, runnerVars,
                 uiVars>>

\* destructiveSyncPages returns the UI kit page.
ReturnPage ==
  /\ syncPc = "purge"
  /\ children = <<>>
  /\ returnedPage' = uiKitPage
  /\ syncPc' = "returned"
  /\ UNCHANGED <<pages, currentPage, uiKitPage, pagesToRemove, children,
                 resolverVars, runnerVars,
                 uiVars>>

NextPages ==
  \/ FindPage
  \/ CreatePage
  \/ SwitchPage
  \/ RemovePage
  \/ CopyChildren
  \/ RemoveNode
  \/ ReturnPage

SpecPages == InitPages /\ [][NextPages]_vars

(***************************************************************************)
(* The plugin from figma.showUI to figma.closePlugin.  Each generate       *)
(* message starts a run of the async handler, which goes on when the       *)
(* promise of the generator it awaits settles; closePlugin ends the        *)
(* plugin, and no code of it runs afterwards.                              *)
(***************************************************************************)
\* The documents that the plugin is opened on.
PluginDocuments == {doc \in Documents : Len(doc) = 1}

\* The values that a generator returns as the next Y position.
GeneratorResults == {150, 400}

\* The calls of the handler before its loop.
Preparation ==
  <<"destructiveSyncPages", "clearColorVariables", "initializeColorVariables">>

InitPlugin ==
  /\ ResolverIdle
  /\ RunnerIdle
  /\ PluginIdle
  /\ DiagramIdle
  /\ PaginationIdle
  /\ pages \in PluginDocuments
  /\ currentPage \in 1..Len(pages)
  /\ syncPc = "idle"
  /\ uiKitPage = 0
  /\ pagesToRemove = <<>>
  /\ children = <<>>
  /\ returnedPage = 0

\* The catch block: the error is notified and the plugin is closed.
Caught ==
  /\ errorNotified' = TRUE
  /\ closes' = closes + 1
  /\ closeMessage' = <<>>

\* The run of destructiveSyncPages inside the handler.
Synced ==
  /\ pages' = destructiveSyncPages(pages)
  /\ currentPage' = syncedPage(pages)
  /\ uiKitPage' = syncedPage(pages)
  /\ returnedPage' = syncedPage(pages)
  /\ UNCHANGED <<syncPc, pagesToRemove, children>>

\* A generate message arrives and the preparation succeeds: the handler
\* runs up to the await of the first generator.
Generate ==
  /\ closes = 0
  /\ received < MaxMessages
  /\ Len(handlers) < MaxGenerates
  /\ received' = received + 1
  /\ Synced
  /\ handlers' = Append(handlers,
                   [pc |-> "awaiting", i |-> 1, nextY |-> START_Y, given |-> START_Y,
                    returned |-> 0, finished |-> 0, prepared |-> Preparation])
  /\ UNCHANGED <<closes, closeMessage, errorNotified, resolverVars, runnerVars,
                 diagramVars, paginationVars>>

\* A generate message arrives and the call number failing of the
\* preparation throws: the Figma API fails in its first call.
GenerateThrows(failing) ==
  /\ closes = 0
  /\ received < MaxMessages
  /\ Len(handlers) < MaxGenerates
  /\ received' = received + 1
  /\ IF failing = 1 THEN UNCHANGED documentVars ELSE Synced
  /\ handlers' = Append(handlers,
                   [pc |-> "failed", i |-> 0, nextY |-> START_Y, given |-> 0,
                    returned |-> 0, finished |-> 0,
                    prepared |-> SubSeq(Preparation, 1, failing - 1)])
  /\ Caught
  /\ UNCHANGED <<resolverVars, runnerVars, diagramVars, paginationVars>>

\* The handler h goes on to the generator after the one that returned.
ExecuteReturns_FromStartY(h, nextY) ==
  /\ closes = 0
  /\ h \in DOMAIN handlers
  /\ handlers[h].pc = "awaiting"
  /\ handlers[h].i < TOTAL_COMPONENTS
  /\ handlers' = [handlers EXCEPT ![h] =
                    [@ EXCEPT !.i = @ + 1, !.finished = @ + 1, !.returned = nextY,
                              !.given = START_Y]]
  /\ UNCHANGED <<received, closes, closeMessage, errorNotified, resolverVars,
                 runnerVars, documentVars, diagramVars, paginationVars>>

\* The generator that the handler h awaits returns nextY, and the handler
\* goes on to the next generator.
ExecuteReturns(h, nextY) ==
  /\ closes = 0
  /\ h \in DOMAIN handlers
  /\ handlers[h].pc = "awaiting"
  /\ handlers[h].i < TOTAL_COMPONENTS
  /\ handlers' = [handlers EXCEPT ![h] =
                    [@ EXCEPT !.i = @ + 1, !.finished = @ + 1, !.returned = nextY,
                              !.nextY = nextY, !.given = nextY]]
  /\ UNCHANGED <<received, closes, closeMessage, errorNotified, resolverVars,
                 runnerVars, documentVars, diagramVars, paginationVars>>

\* The last generator returns: the handler closes the plugin with the
\* completion message.
LastReturns(h, nextY) ==
  /\ closes = 0
  /\ h \in DOMAIN handlers
  /\ handlers[h].pc = "awaiting"
  /\ handlers[h].i = TOTAL_COMPONENTS
  /\ handlers' = [handlers EXCEPT ![h] =
                    [@ EXCEPT !.pc = "completed", !.finished = @ + 1,
                              !.returned = nextY, !.nextY = nextY]]
  /\ closes' = closes + 1
  /\ closeMessage' = completionMessage
  /\ UNCHANGED <<received, errorNotified, resolverVars, runnerVars, documentVars,
                 diagramVars, paginationVars>>

\* The handler h skips the generator that threw.
ExecuteThrows_GoesOn(h) ==
  /\ closes = 0
  /\ h \in DOMAIN handlers
  /\ handlers[h].pc = "awaiting"
  /\ handlers[h].i < TOTAL_COMPONENTS
  /\ handlers' = [handlers EXCEPT ![h] = [@ EXCEPT !.i = @ + 1]]
  /\ UNCHANGED <<received, closes, closeMessage, errorNotified, resolverVars,
                 runnerVars, documentVars, diagramVars, paginationVars>>

\* The generator that the handler h awaits throws: the catch block runs.
ExecuteThrows(h) ==
  /\ closes = 0
  /\ h \in DOMAIN handlers
  /\ handlers[h].pc = "awaiting"
  /\ handlers' = [handlers EXCEPT ![h] = [@ EXCEPT !.pc = "failed"]]
  /\ Caught
  /\ UNCHANGED <<received, resolverVars, runnerVars, documentVars, diagramVars,
                 paginationVars>>

\* A cancel message arrives.
Cancel ==
  /\ closes = 0
  /\ received < MaxMessages
  /\ received' = received + 1
  /\ closes' = closes + 1
  /\ closeMessage' = <<>>
  /\ UNCHANGED <<handlers, errorNotified, resolverVars, runnerVars, documentVars,
                 diagramVars, paginationVars>>

NextPlugin ==
  \/ Generate
  \/ \E failing \in 1..Len(Preparation) : GenerateThrows(failing)
  \/ \E h \in 1..MaxGenerates, nextY \in GeneratorResults : ExecuteReturns(h, nextY)
  \/ \E h \in 1..MaxGenerates, nextY \in GeneratorResults : LastReturns(h, nextY)
  \/ \E h \in 1..MaxGenerates : ExecuteThrows(h)
  \/ Cancel

SpecPlugin == InitPlugin /\ [][NextPlugin]_vars

(***************************************************************************)
(* A mounted FlowDiagram.  A state update and the render that follows it   *)
(* are part of the step that makes the update; the effects of the render   *)
(* run in a later step.  bounds is null (<<>>) or holds one object.        *)
(***************************************************************************)
PAN_SPACING == [x |-> 16, y |-> 64]

\* Math.min, Math.max: NaN when an argument is NaN.
min(a, b) == IF a = NaN \/ b = NaN THEN NaN ELSE IF a < b THEN a ELSE b
max(a, b) == IF a = NaN \/ b = NaN THEN NaN ELSE IF a > b THEN a ELSE b

\* The rectangles of the wrapper and of the content.
WrapperRects == {[width |-> 132, height |-> 228], [width |-> 182, height |-> 228]}
ContentRects ==
  {[width |-> w, height |-> h] : w \in {80, 150, 200}, h \in {100, 150}}

\* The deltas of a wheel event or of a pan move, on one axis.
Deltas == {0 - 70, 0, 50}

\* The bounds that measureBounds sets.
measureBounds(wrapper, content) ==
  LET availableWidth == wrapper.width - PAN_SPACING.x * 2
      availableHeight == wrapper.height - PAN_SPACING.y * 2
  IN [x |-> min(0, availableWidth - content.width),
      y |-> min(0, availableHeight - content.height)]

InitDiagram ==
  /\ ResolverIdle
  /\ RunnerIdle
  /\ DocumentIdle
  /\ PluginIdle
  /\ PaginationIdle
  /\ panX = 0
  /\ panY = 0
  /\ bounds = <<>>
  /\ listenerBounds = <<>>
  /\ effectPending = FALSE
  /\ isPanning = FALSE
  /\ gesture = "none"
  /\ cursor = ""
  /\ userSelect = ""
  /\ mounted = TRUE

\* measureBounds runs, at the mount or from the ResizeObserver.
Measure(wrapper, content) ==
  /\ mounted
  /\ bounds' = <<measureBounds(wrapper, content)>>
  /\ effectPending' = TRUE
  /\ UNCHANGED <<panX, panY, listenerBounds, isPanning, gesture, cursor, userSelect,
                 mounted, resolverVars, runnerVars, documentVars, pluginVars,
                 paginationVars>>

\* The effects of the render run and leave the offsets as they are.
RunEffects_KeepsOffsets ==
  /\ mounted
  /\ effectPending
  /\ listenerBounds' = bounds
  /\ effectPending' = FALSE
  /\ UNCHANGED <<panX, panY, bounds, isPanning, gesture, cursor, userSelect, mounted,
                 resolverVars, runnerVars, documentVars, pluginVars, paginationVars>>

\* The effects of the render with the new bounds run: the offsets are pulled
\* back to the bounds, and the wheel listener is registered anew.
RunEffects ==
  /\ mounted
  /\ effectPending
  /\ panX' = IF panX < bounds[1].x THEN bounds[1].x ELSE panX
  /\ panY' = IF panY < bounds[1].y THEN bounds[1].y ELSE panY
  /\ listenerBounds' = bounds
  /\ effectPending' = FALSE
  /\ UNCHANGED <<bounds, isPanning, gesture, cursor, userSelect, mounted,
                 resolverVars, runnerVars, documentVars, pluginVars, paginationVars>>

\* handleWheel, with the bounds of the render that registered it.
Wheel(deltaX, deltaY) ==
  /\ mounted
  /\ listenerBounds # <<>>
  /\ listenerBounds[1].x < 0 \/ listenerBounds[1].y < 0
  /\ panY' = IF listenerBounds[1].y < 0
             THEN max(listenerBounds[1].y, min(0, panY - deltaY))
             ELSE panY
  /\ panX' = IF listenerBounds[1].x < 0
             THEN max(listenerBounds[1].x, min(0, panX - deltaX))
             ELSE panX
  /\ UNCHANGED <<bounds, listenerBounds, effectPending, isPanning, gesture, cursor,
                 userSelect, mounted, resolverVars, runnerVars, documentVars,
                 pluginVars, paginationVars>>

\* handlePanStart for a gesture on any element.
PanStart_AnyTarget(fromNode) ==
  /\ mounted
  /\ gesture = "none"
  /\ gesture' = IF fromNode THEN "node" ELSE "canvas"
  /\ isPanning' = TRUE
  /\ cursor' = "grabbing"
  /\ userSelect' = "none"
  /\ UNCHANGED <<panX, panY, bounds, listenerBounds, effectPending, mounted,
                 resolverVars, runnerVars, documentVars, pluginVars, paginationVars>>

\* handlePanStart: a gesture starts, on an element inside a node or not.
PanStart(fromNode) ==
  /\ mounted
  /\ gesture = "none"
  /\ gesture' = IF fromNode THEN "node" ELSE "canvas"
  /\ IF fromNode
     THEN UNCHANGED <<isPanning, cursor, userSelect>>
     ELSE /\ isPanning' = TRUE
          /\ cursor' = "grabbing"
          /\ userSelect' = "none"
  /\ UNCHANGED <<panX, panY, bounds, listenerBounds, effectPending, mounted,
                 resolverVars, runnerVars, documentVars, pluginVars, paginationVars>>

\* handlePan: the pointer of the gesture moves.
Pan(deltaX, deltaY) ==
  /\ mounted
  /\ gesture # "none"
  /\ IF bounds = <<>> \/ ~isPanning
     THEN UNCHANGED <<panX, panY>>
     ELSE /\ panX' = max(bounds[1].x, min(0, panX + deltaX))
          /\ panY' = max(bounds[1].y, min(0, panY + deltaY))
  /\ UNCHANGED <<bounds, listenerBounds, effectPending, isPanning, gesture, cursor,
                 userSelect, mounted, resolverVars, runnerVars, documentVars,
                 pluginVars, paginationVars>>

\* handlePanEnd: the gesture ends.
PanEnd ==
  /\ mounted
  /\ gesture # "none"
  /\ gesture' = "none"
  /\ IF ~isPanning
     THEN UNCHANGED <<isPanning, cursor, userSelect>>
     ELSE /\ isPanning' = FALSE
          /\ cursor' = ""
          /\ userSelect' = ""
  /\ UNCHANGED <<panX, panY, bounds, listenerBounds, effectPending, mounted,
                 resolverVars, runnerVars, documentVars, pluginVars, paginationVars>>

\* The component unmounts: the cleanup of the effects runs.
Unmount ==
  /\ mounted
  /\ mounted' = FALSE
  /\ cursor' = ""
  /\ userSelect' = ""
  /\ UNCHANGED <<panX, panY, bounds, listenerBounds, effectPending, isPanning,
                 gesture, resolverVars, runnerVars, documentVars, pluginVars,
                 paginationVars>>

NextDiagram ==
  \/ \E wrapper \in WrapperRects, content \in ContentRects : Measure(wrapper, content)
  \/ RunEffects
  \/ \E deltaX \in Deltas, deltaY \in Deltas : Wheel(deltaX, deltaY)
  \/ \E fromNode \in BOOLEAN : PanStart(fromNode)
  \/ \E deltaX \in Deltas, deltaY \in Deltas : Pan(deltaX, deltaY)
  \/ PanEnd
  \/ Unmount

SpecDiagram == InitDiagram /\ [][NextDiagram]_vars

(***************************************************************************)
(* A Pagination under a parent that stores the page that setPage is        *)
(* called with and passes it back as the page prop.                        *)
(***************************************************************************)
\* a + b of numbers.
plus(a, b) == IF a = NaN \/ b = NaN THEN NaN ELSE a + b

\* Number(text) of the text of the page input: 0 for the empty text, the
\* integer that the text writes, NaN otherwise.
Number(text) ==
  LET digits == IF text # <<>> /\ Head(text) = "-" THEN Tail(text) ELSE text
  IN IF text = <<>> THEN 0
     ELSE IF digits = <<>> \/ \E k \in DOMAIN digits : digits[k] \notin DecDigits THEN NaN
     ELSE IF Head(text) = "-" THEN 0 - digitsValue(digits, 10)
     ELSE digitsValue(digits, 10)

\* The texts that the user types into the page input.
TypedTexts == {<<>>, <<"0">>, <<"2">>, <<"9", "9">>, <<"-", "2">>, <<"x">>}

\* The decimal digits of a number that is not negative.
RECURSIVE digitsOf(_)
digitsOf(n) ==
  LET digit == CHOOSE d \in DecDigits : digitsValue(<<d>>, 10) = n % 10
  IN IF n < 10 THEN <<digit>> ELSE Append(digitsOf(n \div 10), digit)

\* `${n}` of a number.
numberToString(n) ==
  IF n = NaN THEN <<"N", "a", "N">>
  ELSE IF n < 0 THEN <<"-">> \o digitsOf(0 - n)
  ELSE digitsOf(n)

\* a * b of numbers.
times(a, b) == IF a = NaN \/ b = NaN THEN NaN ELSE a * b

\* The value, with 0 in the place of NaN.
orZero(n) == IF n = NaN THEN 0 ELSE n

\* The range with the product itself as its upper end.
pageShowingRange_WholePage(page, size, total) ==
  LET lower == plus(plus(times(page, size), 0 - size), 1)
      upper == times(page, size)
  IN numberToString(orZero(lower)) \o <<"-">> \o numberToString(orZero(upper))

\* pageShowingRange
pageShowingRange(page, size, total) ==
  LET lower == plus(plus(times(page, size), 0 - size), 1)
      upper == min(times(page, size), total)
  IN numberToString(orZero(lower)) \o <<"-">> \o numberToString(orZero(upper))

\* maxPage
maxPage(total, size) == (total + size - 1) \div size

InitPagination ==
  /\ ResolverIdle
  /\ RunnerIdle
  /\ DocumentIdle
  /\ PluginIdle
  /\ DiagramIdle
  /\ pageNumber = 1
  /\ perPage \in 1..MaxPerPage
  /\ totalCount \in 0..MaxTotalCount
  /\ editingPage = 1
  /\ setPageCall = <<>>

\* setPage(number) and setEditingPage(number): the parent stores the page
\* and renders the Pagination with it.
SetPage(number) ==
  /\ setPageCall' = <<number>>
  /\ pageNumber' = number
  /\ editingPage' = number
  /\ UNCHANGED <<perPage, totalCount, resolverVars, runnerVars, documentVars,
                 pluginVars, diagramVars>>

\* A click on the button of the first page, which is disabled when
\* page <= 1 (false of NaN).
ClickFirst ==
  /\ ~(pageNumber # NaN /\ pageNumber <= 1)
  /\ SetPage(1)

\* A click on the button of the previous page.
ClickPrevious ==
  /\ ~(pageNumber # NaN /\ pageNumber <= 1)
  /\ SetPage(max(plus(pageNumber, 0 - 1), 1))

\* A click on the button of the next page, which is disabled when
\* page === maxPage.
ClickNext ==
  /\ pageNumber # maxPage(totalCount, perPage)
  /\ SetPage(min(plus(pageNumber, 1), maxPage(totalCount, perPage)))

\* A click on the button of the last page.
ClickLast ==
  /\ pageNumber # maxPage(totalCount, perPage)
  /\ SetPage(maxPage(totalCount, perPage))

\* The user changes the text of the page input.
TypePage(text) ==
  /\ editingPage' = Number(text)
  /\ UNCHANGED <<pageNumber, perPage, totalCount, setPageCall, resolverVars,
                 runnerVars, documentVars, pluginVars, diagramVars>>

\* The page input loses the focus.
BlurPage ==
  SetPage(min(max(editingPage, 1), maxPage(totalCount, perPage)))

NextPagination ==
  \/ ClickFirst
  \/ ClickPrevious
  \/ ClickNext
  \/ ClickLast
  \/ \E text \in TypedTexts : TypePage(text)
  \/ BlurPage

SpecPagination == InitPagination /\ [][NextPagination]_vars

(***************************************************************************)
(* Vocabulary of the properties.  These definitions say what the           *)
(* properties mean and are written without the operators of the resolver.  *)
(***************************************************************************)
\* s consists of white space only.
Blank(s) == \A k \in 1..Len(s) : s[k] \in WhiteSpace

\* s without its leading and trailing white space: the text from the first
\* to the last character that is no white space.
TrimmedText(s) ==
  LET first == CHOOSE k \in 1..Len(s) :
                 s[k] \notin WhiteSpace /\ \A j \in 1..(k - 1) : s[j] \in WhiteSpace
      last == CHOOSE k \in 1..Len(s) :
                s[k] \notin WhiteSpace /\ \A j \in (k + 1)..Len(s) : s[j] \in WhiteSpace
  IN IF Blank(s) THEN <<>> ELSE SubSeq(s, first, last)

\* prefix is the beginning of s.
Begins(s, prefix) ==
  Len(prefix) <= Len(s) /\ \A k \in 1..Len(prefix) : s[k] = prefix[k]

\* The call has returned a color.
Resolved == pc = "returned" /\ result.ok

\* The call has thrown the Error with the given message prefix.
Failed(message) ==
  pc = "returned" /\ ~result.ok /\ result.message = message

UnsupportedFormat == "Unsupported color format: "
InvalidExpression == "Cannot resolve CSS variable without fallback: "
InvalidOklch == "Invalid OKLCH format: "
InvalidHex == "Invalid hex color: "

\* The color has an a field.
HasAlpha(color) == "a" \in DOMAIN color

\* Two outcomes are the same color, or failures of the same kind.
SameOutcome(x, y) ==
  IF x.ok /\ y.ok
  THEN /\ DOMAIN x.color = DOMAIN y.color
       /\ \A f \in DOMAIN x.color : x.color[f] = y.color[f]
  ELSE ~x.ok /\ ~y.ok /\ x.message = y.message

\* Variable names without comma and parenthesis.
CleanNames ==
  { <<>>,
    <<"-", "-", "x">>,
    <<" ", "-", "-", "k", "u", "m", "o", "-", "b", "r", "a", "n", "d", " ">> }

\* The text var(<name>, E).
VarReference(name, E) == VarPrefix \o name \o <<",", " ">> \o E \o <<")">>

(***************************************************************************)
(* Properties of resolveColor.                                             *)
(***************************************************************************)
\* C1: for every variable name without comma and parenthesis and every
\* fallback text E that is not blank, resolveColor("var(<name>, E)") has the
\* outcome of resolveColor(E): the same color, or a failure of the same kind,
\* whatever the name is.  E is the argument of the call that has returned.
C1_VarResolvesToFallback ==
  pc = "returned" /\ ~Blank(value) =>
    \A name \in CleanNames :
      SameOutcome(resolveColor(VarReference(name, value)), result)

\* A call with an oklch(...) expression has returned a color, and the var()
\* reference with that expression as its fallback resolves too.
C1_Witness ==
  /\ Resolved
  /\ Begins(value, OklchPrefix)
  /\ resolveColor(VarReference(<<"-", "-", "x">>, value)).ok

\* C2: an input whose trimmed text is exactly transparent gives exactly
\* {r: 0, g: 0, b: 0, a: 0}.
C2_TransparentIsZero ==
  pc = "returned" /\ TrimmedText(value) = Transparent =>
    /\ result.ok
    /\ DOMAIN result.color = {"r", "g", "b", "a"}
    /\ \A f \in DOMAIN result.color : result.color[f] = 0

\* The call with transparent between white space has returned.
C2_Witness ==
  /\ pc = "returned"
  /\ value = <<" ">> \o Transparent \o <<" ">>

\* C3: for all hex digits x, y, z of either case, resolveColor("#xyz") returns
\* the color of resolveColor("#xxyyzz").
C3_ShortHexIsDoubled ==
  pc = "returned" /\ Len(value) = 4 /\ value[1] = "#"
    /\ (\A k \in 2..4 : value[k] \in HexDigits) =>
      LET x == value[2]
          y == value[3]
          z == value[4]
      IN /\ result.ok
         /\ resolveColor(<<"#", x, x, y, y, z, z>>).ok
         /\ SameOutcome(result, resolveColor(<<"#", x, x, y, y, z, z>>))

\* The call with #aFF, digits of both cases, has returned a color.
C3_Witness ==
  /\ Resolved
  /\ value = <<"#", "a", "F", "F">>

\* C4: for # followed by exactly 6 hex digits of either case, r, g and b are
\* the base-16 values of the 1st, 2nd and 3rd digit pair divided by 255, and
\* the color has no a field.  One is a multiple of 255: n / 255 is the whole
\* number n * (One \div 255) of channel units.
C4_LongHexChannels ==
  pc = "returned" /\ Len(value) = 7 /\ value[1] = "#"
    /\ (\A k \in 2..7 : value[k] \in HexDigits) =>
      LET pair(k) == 16 * hexDigitValue(value[k]) + hexDigitValue(value[k + 1])
      IN /\ result.ok
         /\ DOMAIN result.color = {"r", "g", "b"}
         /\ result.color.r = pair(2) * (One \div 255)
         /\ result.color.g = pair(4) * (One \div 255)
         /\ result.color.b = pair(6) * (One \div 255)

\* The call with #aF08bE has returned a color.
C4_Witness ==
  /\ Resolved
  /\ value = <<"#", "a", "F", "0", "8", "b", "E">>

\* C5: a returned color has an a field exactly when the expression that the
\* var() fallbacks end in is transparent or an oklch(...) form whose match has
\* the / A clause; a hex result has none.
C5_AlphaOnlyWhenGiven ==
  Resolved =>
    LET final == resolvedExpression(value)
    IN /\ HasAlpha(result.color) <=>
            \/ final = Transparent
            \/ /\ Begins(final, OklchPrefix)
               /\ oklchMatch(final).alphaStr # Undefined
       /\ Begins(final, <<"#">>) => ~HasAlpha(result.color)

\* An oklch expression without alpha clause has resolved to a color without a.
C5_Witness ==
  /\ Resolved
  /\ Begins(value, OklchPrefix)
  /\ \A k \in 1..Len(value) : value[k] # "/"
  /\ ~HasAlpha(result.color)

\* An oklch expression with an alpha clause has resolved to a color with a.
C5_WitnessAlpha ==
  /\ Resolved
  /\ Begins(value, OklchPrefix)
  /\ HasAlpha(result.color)

\* The channel value lies in [0, 1].
InUnitInterval(x) == x # NaN /\ 0 <= x /\ x <= One

\* C6: every returned color has each of r, g and b within [0, 1].
C6_ChannelsInUnitInterval ==
  Resolved =>
    /\ InUnitInterval(result.color.r)
    /\ InUnitInterval(result.color.g)
    /\ InUnitInterval(result.color.b)

C8_OtherTextIsUnsupported ==
  LET text == TrimmedText(value)
  IN pc = "returned" /\ text # Transparent /\ ~Begins(text, VarPrefix)
       /\ ~Begins(text, OklchPrefix) /\ ~Begins(text, <<"#">>) =>
         Failed(UnsupportedFormat)

\* The call with rgb(0,0,0) has thrown.
C8_Witness ==
  /\ pc = "returned"
  /\ value = <<"r", "g", "b", "(", "0", ",", "0", ",", "0", ")">>
  /\ ~result.ok

\* The call with the empty string has thrown.
C8_WitnessEmpty ==
  /\ pc = "returned"
  /\ value = <<>>
  /\ ~result.ok

\* The text after # is exactly 3 or exactly 6 hex digits.
HexBody(body) ==
  Len(body) \in {3, 6} /\ \A k \in 1..Len(body) : body[k] \in HexDigits

\* C9: an input that starts with # and whose body after # is not exactly 3 or
\* exactly 6 hex digits fails with the Error "Invalid hex color" and returns
\* no color.
C9_BadHexFails ==
  LET text == TrimmedText(value)
  IN pc = "returned" /\ Begins(text, <<"#">>)
       /\ ~HexBody(SubSeq(text, 2, Len(text))) =>
         Failed(InvalidHex)

\* The call with the 4-digit form #08bE has thrown.
C9_Witness ==
  /\ pc = "returned"
  /\ value = <<"#", "0", "8", "b", "E">>
  /\ ~result.ok

\* The token is a number: digits with at most one point and at least one
\* digit.
NumericToken(token) ==
  /\ \A k \in 1..Len(token) : token[k] \in NumChars
  /\ Cardinality({k \in 1..Len(token) : token[k] = "."}) <= 1
  /\ \E k \in 1..Len(token) : token[k] \in DecDigits

\* The whole text has the shape oklch( L C H ) or oklch( L C H / A ) with
\* numeric tokens.
WholeOklchShape(text) ==
  LET m == oklchMatchAt(text, 1)
      L == IF m.lightnessStr # <<>>
              /\ m.lightnessStr[Len(m.lightnessStr)] = "%"
           THEN SubSeq(m.lightnessStr, 1, Len(m.lightnessStr) - 1)
           ELSE m.lightnessStr
  IN /\ Begins(text, OklchPrefix)
     /\ m.matched
     /\ m.text = text
     /\ NumericToken(L)
     /\ NumericToken(m.chromaStr)
     /\ NumericToken(m.hueStr)
     /\ m.alphaStr # Undefined => NumericToken(m.alphaStr)

\* C10: an input that starts with oklch( and whose whole text is not of the
\* shape oklch( L C H ) or oklch( L C H / A ) with numeric tokens fails with
\* the Error "Invalid OKLCH format", also when the text goes on after the
\* closing parenthesis of a well-formed oklch(...) call.
C10_MalformedOklchFails ==
  LET text == TrimmedText(value)
  IN pc = "returned" /\ Begins(text, OklchPrefix) /\ ~WholeOklchShape(text) =>
       Failed(InvalidOklch)

\* n var() references nested into each other, with E as the innermost
\* fallback: var(--x, var(--x, ... E)).
RECURSIVE Nested(_, _)
Nested(n, E) ==
  IF n = 0 THEN E ELSE VarReference(<<"-", "-", "x">>, Nested(n - 1, E))

\* C11: for every nesting depth n >= 1, n nested var() references whose
\* innermost fallback E is a color expression, no var() reference itself,
\* resolve to the color of E, and resolveColor makes exactly n recursive
\* calls on the way.  E is the argument of the call that has returned a color.
C11_NestedVarResolves ==
  Resolved /\ ~Begins(TrimmedText(value), VarPrefix) =>
    \A n \in 1..MaxNesting :
      /\ SameOutcome(resolveColor(Nested(n, value)), result)
      /\ recursiveSteps(Nested(n, value)) = n

\* The short hex color #aFF has resolved, and so has the deepest nesting of
\* var() references around it, in as many recursive calls as its depth.
C11_Witness ==
  /\ Resolved
  /\ value = <<"#", "a", "F", "F">>
  /\ resolveColor(Nested(MaxNesting, value)).ok
  /\ recursiveSteps(Nested(MaxNesting, value)) = MaxNesting

Contains(text, part) ==
  \E k \in 0..(Len(text) - Len(part)) :
    \A j \in 1..Len(part) : text[k + j] = part[j]

FailureKinds == {UnsupportedFormat, InvalidExpression, InvalidOklch, InvalidHex}

Depth(text, k) ==
  Cardinality({j \in 1..(k - 1) : text[j] = "("})
    - Cardinality({j \in 1..(k - 1) : text[j] = ")"})

\* The positions of the commas of the text at parenthesis depth exactly 1.
DepthOneCommas(text) ==
  {k \in 1..Len(text) : text[k] = "," /\ Depth(text, k) = 1}

\* The least position of a non-empty set of positions.
First(positions) == CHOOSE k \in positions : \A j \in positions : k <= j

\* The text ends with a closing parenthesis.
Closed(text) == Len(text) > 0 /\ text[Len(text)] = ")"

\* C17: for a var() reference that ends with ) and has a comma at parenthesis
\* depth exactly 1, the separator is the first such comma from the left, a
\* comma at depth 2 or more (in a nested call in the name or in the fallback)
\* is never taken, and the fallback is all text between the separator and the
\* final ), trimmed: resolveColor fails with InvalidExpression when that text
\* is blank and has the outcome of that text otherwise.
C17_SeparatorIsFirstDepthOneComma ==
  LET text == TrimmedText(value)
      separator == First(DepthOneCommas(text))
      between == SubSeq(text, separator + 1, Len(text) - 1)
  IN pc = "returned" /\ Begins(text, VarPrefix) /\ Closed(text)
       /\ DepthOneCommas(text) # {} =>
         /\ extractCssVarFallback(value) = TrimmedText(between)
         /\ IF Blank(between)
            THEN Failed(InvalidExpression)
            ELSE SameOutcome(result, resolveColor(between))

\* The name of the var() reference is a call with commas at depth 2 and the
\* fallback is a hex color: the call has returned a color.
C17_Witness ==
  /\ Resolved
  /\ value = VarPrefix \o <<"r", "g", "b", "(", "0", ",", "0", ",", "0", ")">>
               \o <<",", "#", "a", "F", "F", ")">>

\* The positions of the closing parentheses of the text at depth 1: the first
\* of them closes the var( that the text begins with.
ClosingParentheses(text) ==
  {k \in 1..Len(text) : text[k] = ")" /\ Depth(text, k) = 1}

\* C18: when the text between var( and the parenthesis that closes it has no
\* comma at depth 1, the extraction reports no fallback and resolveColor
\* fails with InvalidExpression, whatever text follows that closing
\* parenthesis, a second parenthesised group with a comma included.
C18_NoFallbackWithoutCommaInsideVar ==
  LET text == TrimmedText(value)
      closing == First(ClosingParentheses(text))
  IN pc = "returned" /\ Begins(text, VarPrefix)
       /\ ClosingParentheses(text) # {}
       /\ (\A k \in DepthOneCommas(text) : k > closing) =>
         /\ extractCssVarFallback(value) = Null
         /\ Failed(InvalidExpression)

\* C19: an input that starts with var( and whose trimmed text does not end
\* with ) has no fallback: resolveColor fails with InvalidExpression, naming
\* the input, and does not resolve the text after the comma.
C19_UnclosedVarFails ==
  LET text == TrimmedText(value)
  IN pc = "returned" /\ Begins(text, VarPrefix) /\ ~Closed(text) =>
       /\ extractCssVarFallback(value) = Null
       /\ Failed(InvalidExpression)
       /\ result.input = value

\* The call with var(--x,#aFF, a var() reference with a fallback and without
\* the closing parenthesis, has thrown.
C19_Witness ==
  /\ pc = "returned"
  /\ value = VarPrefix \o <<"-", "-", "x", ",", "#", "a", "F", "F">>
  /\ ~result.ok

\* The positions of the character ch in the text.
Positions(text, ch) == {k \in 1..Len(text) : text[k] = ch}

\* The text is an oklch( expression with one slash and one closing
\* parenthesis, which is its last character: the alpha clause is the text
\* between the two.
HasAlphaClause(text) ==
  /\ Begins(text, OklchPrefix)
  /\ Cardinality(Positions(text, "/")) = 1
  /\ Positions(text, ")") = {Len(text)}

AlphaClause(text) ==
  TrimmedText(SubSeq(text, First(Positions(text, "/")) + 1, Len(text) - 1))

\* C20: when an oklch expression of numeric tokens with the alpha clause / A
\* has resolved, the a of the color is the value of A, not clamped, also when
\* A is 0 or greater than 1 (oklch(.5 0 0/2) has a = 2), while r, g and b lie
\* within [0, 1].
C20_AlphaIsNotClamped ==
  LET text == TrimmedText(value)
  IN Resolved /\ HasAlphaClause(text) /\ NumericToken(AlphaClause(text))
       /\ WholeOklchShape(text) =>
       /\ HasAlpha(result.color)
       /\ result.color.a = parseFloat(AlphaClause(text)) * (One \div Scale)
       /\ InUnitInterval(result.color.r)
       /\ InUnitInterval(result.color.g)
       /\ InUnitInterval(result.color.b)

\* An oklch expression outside the sRGB gamut with the alpha clause /2 has
\* resolved: a is 2 and a channel is clamped to 1.
C20_Witness ==
  /\ Resolved
  /\ value = OklchPrefix \o <<"9", "0", "%", " ", ".", "4", " ", "3", "0", "/", "2", ")">>
  /\ result.color.a = 2 * One
  /\ result.color.r = One

\* An oklch expression with the alpha clause /0 has resolved: a is 0.
C20_WitnessZero ==
  /\ Resolved
  /\ HasAlphaClause(value)
  /\ AlphaClause(value) = <<"0">>
  /\ result.color.a = 0

\* The two texts are equal but for the case of their letters.
EqualIgnoringCase(a, b) ==
  LET variants(ch) == CASE ch = "t" -> {"t", "T"} [] ch = "r" -> {"r", "R"}
                        [] ch = "u" -> {"u", "U"} [] ch = "e" -> {"e", "E"}
                        [] ch = "y" -> {"y", "Y"} [] ch = "s" -> {"s", "S"}
                        [] ch = "i" -> {"i", "I"} [] ch = "k" -> {"k", "K"}
                        [] OTHER -> {ch}
  IN Len(a) = Len(b) /\ \A k \in 1..Len(a) : a[k] \in variants(b[k])

\* KUMO_FIGMA_SKIP_SYNC is 1, true or yes in the environment that the runner
\* was started with.
SkipRequested ==
  /\ KUMO_FIGMA_SKIP_SYNC \in DOMAIN environ
  /\ \E word \in {<<"1">>, <<"t", "r", "u", "e">>, <<"y", "e", "s">>} :
       EqualIgnoringCase(environ[KUMO_FIGMA_SKIP_SYNC], word)

\* FIGMA_TOKEN is set and not empty in the environment that the runner was
\* started with.
TokenInEnvironment ==
  FIGMA_TOKEN \in DOMAIN environ /\ environ[FIGMA_TOKEN] # <<>>

\* The lines of the file: the pieces of text without a line end that reach
\* from the start of the file or a line end to the next line end or the end
\* of the file.
FileLines(file) ==
  LET starts == {1} \cup {k + 1 : k \in Positions(file, "\n")}
      ends == {Len(file)} \cup {k - 1 : k \in Positions(file, "\n")}
  IN { SubSeq(file, i, j) :
         <<i, j>> \in { p \in starts \X ends :
                          /\ p[1] <= p[2] + 1
                          /\ \A k \in p[1]..p[2] : file[k] # "\n" } }

\* The line is FIGMA_TOKEN=<text> and the text, without a quote at its start
\* and a quote at its end, is not empty.
DefinesToken(line) ==
  LET text == TrimmedText(line)
      given == SubSeq(text, Len(FIGMA_TOKEN) + 2, Len(text))
  IN /\ Begins(text, FIGMA_TOKEN \o <<"=">>)
     /\ \E k \in 1..Len(given) :
          /\ ~(k = 1 /\ given[k] \in Quotes)
          /\ ~(k = Len(given) /\ given[k] \in Quotes)

\* scripts/.env exists and a line of it gives FIGMA_TOKEN a value.
TokenInDotEnv ==
  /\ dotEnv # NoFile
  /\ \E line \in FileLines(dotEnv) : DefinesToken(line)

\* The runner is to start figma:sync.
SyncWanted == ~SkipRequested /\ (TokenInEnvironment \/ TokenInDotEnv)

\* C15: the sync runner starts figma:sync if and only if
\* KUMO_FIGMA_SKIP_SYNC in the process environment is none of 1, true and yes
\* in any case of letters and FIGMA_TOKEN is not empty in the process
\* environment or, failing that, in scripts/.env, so that the skip variable
\* wins over a token; and when figma:sync ends with a status other than 0 the
\* runner exits with that status.
C15_SyncStartsIffTokenAndNoSkip ==
  /\ started => SyncWanted
  /\ runnerPc = "exited" => (started <=> SyncWanted)
  /\ runnerPc = "exited" /\ started /\ status \notin {0, NullStatus} =>
       exitCode = status

\* The token came from scripts/.env, figma:sync was started and ended with
\* status 2, and the runner has exited with 2.
C15_Witness ==
  /\ runnerPc = "exited"
  /\ started
  /\ ~TokenInEnvironment
  /\ TokenInDotEnv
  /\ status = 2
  /\ exitCode = 2

\* The skip variable was TRUE and a token was set: the runner has exited
\* without starting figma:sync.
C15_WitnessSkip ==
  /\ runnerPc = "exited"
  /\ ~started
  /\ TokenInEnvironment
  /\ SkipRequested
  /\ environ[KUMO_FIGMA_SKIP_SYNC] = <<"T", "R", "U", "E">>

\* C16: after destructiveSyncPages has returned, whatever pages the document
\* had, the document has exactly one page; that page is the returned page,
\* it has the name of the UI kit, it has no children, and it is the current
\* page.
C16_OnlyTheCleanUiKitPageIsLeft ==
  syncPc = "returned" =>
    /\ Len(pages) = 1
    /\ pages[1].id = returnedPage
    /\ EqualIgnoringCase(TrimmedText(pages[1].name), UI_KIT_PAGE_NAME)
    /\ pages[1].children = <<>>
    /\ currentPage = returnedPage

\* The sync has returned on a document whose second page was the first with
\* the name of the UI kit, written " UI Kit ": that page is left, with the
\* name as it was written.
C16_Witness ==
  /\ syncPc = "returned"
  /\ returnedPage = 2
  /\ Len(pages) = 1
  /\ pages[1].name = <<" ", "U", "I", " ", "K", "i", "t", " ">>

\* The sync has returned on a document without a UI kit page: the page that
\* is left is the one it created.
C16_WitnessCreated ==
  /\ syncPc = "returned"
  /\ returnedPage = MaxPages + 1

\* The number N / 100 written out: the decimal point of the number token is
\* moved two places to the left.
Hundredth(token) ==
  LET points == Positions(token, ".")
      point == IF points = {} THEN Len(token) + 1 ELSE First(points)
      whole == <<"0", "0">> \o SubSeq(token, 1, point - 1)
      fraction == SubSeq(token, point + 1, Len(token))
  IN SubSeq(whole, 1, Len(whole) - 2) \o <<".">>
       \o SubSeq(whole, Len(whole) - 1, Len(whole)) \o fraction

\* The length of the run of digits and points that follows oklch( in the
\* text.
LightnessLength(text) ==
  CHOOSE n \in 0..Len(text) :
    /\ \A k \in 1..n : At(text, Len(OklchPrefix) + k) \in NumChars
    /\ At(text, Len(OklchPrefix) + n + 1) \notin NumChars

Paddings == {<<>>, <<" ">>, <<"\t", " ">>, <<"\n">>}

\* C22: for every input s, white space added before or after s does not
\* change the outcome of resolveColor, the same color or a failure of the
\* same kind, and neither does white space added around the fallback s of a
\* var() reference.  s is the argument of the call that has returned.
C22_WhiteSpaceChangesNothing ==
  pc = "returned" =>
    \A before, after \in Paddings :
      /\ SameOutcome(resolveColor(before \o value \o after), result)
      /\ SameOutcome(
           resolveColor(VarPrefix \o <<"-", "-", "x", ",">> \o before \o value
                          \o after \o <<")">>),
           resolveColor(VarPrefix \o <<"-", "-", "x", ",">> \o value \o <<")">>))

\* The hex color #aFF has resolved, and so has the same text between white
\* space, alone and as the fallback of a var() reference.
C22_Witness ==
  /\ Resolved
  /\ value = <<"#", "a", "F", "F">>
  /\ resolveColor(<<"\t", " ">> \o value \o <<"\n">>).ok
  /\ resolveColor(VarPrefix \o <<"-", "-", "x", ",", "\t", " ">> \o value
                     \o <<"\n", ")">>).ok

\* Every recursive call that resolveColor(v) makes, and every one that these
\* calls make, has an argument that is shorter than the argument of the call
\* that makes it.
RECURSIVE ShorterAtEveryStep(_)
ShorterAtEveryStep(v) ==
  LET fallback == extractCssVarFallback(trim(v))
  IN recursiveSteps(v) > 0 =>
       Len(fallback) < Len(v) /\ ShorterAtEveryStep(fallback)

\* The parenthesis at position k of the text opens a var() reference.
OpensVar(text, k) ==
  k > 3 /\ SubSeq(text, k - 3, k) = VarPrefix

\* The largest number of var( groups that are open at the same time in the
\* text from position k on; open holds, innermost first, whether each open
\* parenthesis is one of a var() reference.
RECURSIVE NestingFrom(_, _, _)
NestingFrom(text, k, open) ==
  LET levels == Cardinality({j \in 1..Len(open) : open[j]})
      later == IF text[k] = "("
               THEN NestingFrom(text, k + 1, <<OpensVar(text, k)>> \o open)
               ELSE IF text[k] = ")" /\ open # <<>>
               THEN NestingFrom(text, k + 1, Tail(open))
               ELSE NestingFrom(text, k + 1, open)
  IN IF k > Len(text) THEN levels
     ELSE IF later > levels THEN later ELSE levels

\* The number of nested var( levels of the text.
VarNesting(text) == NestingFrom(text, 1, <<>>)

\* C23: resolveColor ends on every input: each recursive call for the
\* fallback of a var() reference has a strictly shorter argument, and the
\* number of recursive calls is at most the number of nested var( levels of
\* the input.
C23_RecursionBoundedByNesting ==
  pc = "returned" =>
    /\ ShorterAtEveryStep(value)
    /\ recursiveSteps(value) <= VarNesting(value)

\* The ids of the pages of a document.
PageIds(document) == {document[k].id : k \in DOMAIN document}

\* C24: during destructiveSyncPages no page is removed while it is the
\* current page: whenever a step removes a page, the current page is the UI
\* kit page already and the removed page is another one, and remove() is
\* never called on the current page.
C24_CurrentPageIsNeverRemoved ==
  [][/\ \A id \in PageIds(pages) \ PageIds(pages)' :
          currentPage = uiKitPage /\ id # currentPage /\ id # uiKitPage
     /\ syncPc' # "threw"]_vars

\* The first page of the document, which is not the UI kit page, has been
\* removed and another page is about to be.
C24_Witness ==
  /\ syncPc = "remove"
  /\ pagesToRemove # <<>>
  /\ pages[1].id > 1
  /\ currentPage = uiKitPage

\* The letters of the alphabet, each with its capital.
AlphabetPairs ==
  <<{"a", "A"}, {"b", "B"}, {"c", "C"}, {"d", "D"}, {"e", "E"}, {"f", "F"},
    {"g", "G"}, {"h", "H"}, {"i", "I"}, {"j", "J"}, {"k", "K"}, {"l", "L"},
    {"m", "M"}, {"n", "N"}, {"o", "O"}, {"p", "P"}, {"q", "Q"}, {"r", "R"},
    {"s", "S"}, {"t", "T"}, {"u", "U"}, {"v", "V"}, {"w", "W"}, {"x", "X"},
    {"y", "Y"}, {"z", "Z"}>>

\* The place of a letter in the alphabet; 0 for a character that is no
\* letter.
LetterRank(ch) ==
  IF \E k \in DOMAIN AlphabetPairs : ch \in AlphabetPairs[k]
  THEN CHOOSE k \in DOMAIN AlphabetPairs : ch \in AlphabetPairs[k]
  ELSE 0

\* The name a does not come after the name b in the alphabet.
InAlphabeticalOrder(a, b) ==
  \/ /\ Len(a) <= Len(b)
     /\ \A j \in 1..Len(a) : LetterRank(a[j]) = LetterRank(b[j])
  \/ \E k \in 1..Len(a) :
       /\ k <= Len(b)
       /\ \A j \in 1..(k - 1) : LetterRank(a[j]) = LetterRank(b[j])
       /\ LetterRank(a[k]) < LetterRank(b[k])

\* The entry earlier may run before the entry later: a priority entry before
\* the others, and otherwise by name.
RunsBefore(earlier, later) ==
  \/ earlier.priority /\ ~later.priority
  \/ earlier.priority = later.priority /\ InAlphabeticalOrder(earlier.name, later.name)

\* The step starts a generator in the run h of the handler.
StartsGenerator(h) ==
  /\ h \in DOMAIN handlers'
  /\ handlers'[h].pc = "awaiting"
  /\ h \in DOMAIN handlers => handlers'[h].i # handlers[h].i

\* C25: on a generate message the generators run one at a time, priority
\* entries first and then in the alphabetical order of their names: a
\* generator starts only when the page sync, clearColorVariables and
\* initializeColorVariables have been called in this order and every
\* generator before it has finished; it is an entry of the registry that has
\* not run before; the first one receives Y = 100 and each later one the
\* nextY that the one before it returned.
C25_GeneratorsRunInOrder ==
  [][\A h \in DOMAIN handlers' :
       StartsGenerator(h) =>
         LET run == handlers'[h]
         IN /\ run.prepared = <<"destructiveSyncPages", "clearColorVariables",
                                "initializeColorVariables">>
            /\ run.finished = run.i - 1
            /\ \E k \in DOMAIN GENERATORS : GENERATORS[k] = sortedGenerators[run.i]
            /\ \A k \in 1..(run.i - 1) :
                 /\ sortedGenerators[k] # sortedGenerators[run.i]
                 /\ RunsBefore(sortedGenerators[k], sortedGenerators[run.i])
            /\ run.given = IF run.i = 1 THEN 100 ELSE run.returned]_vars

\* The third generator of a run has been started with the Y position 400
\* that the second one returned, after the first one had returned 150.
C25_Witness ==
  \E h \in DOMAIN handlers :
    /\ handlers[h].pc = "awaiting"
    /\ handlers[h].i = 3
    /\ handlers[h].returned = 400
    /\ handlers[h].given = 400

C27_OffsetsWithinBounds ==
  /\ [](mounted /\ bounds # <<>> /\ ~effectPending =>
          /\ bounds[1].x <= panX /\ panX <= 0
          /\ bounds[1].y <= panY /\ panY <= 0)
  /\ [][effectPending /\ ~effectPending' =>
          /\ panX < bounds[1].x => panX' = bounds[1].x
          /\ panY < bounds[1].y => panY' = bounds[1].y]_vars

\* The content has become smaller after the user panned to the edge: the
\* offset is beyond the new bound, and the effects have not yet run.
C27_Witness ==
  /\ mounted
  /\ effectPending
  /\ bounds # <<>>
  /\ listenerBounds # <<>>
  /\ panX = listenerBounds[1].x
  /\ panX < bounds[1].x

Ceiling(amount, size) ==
  CHOOSE q \in 0..amount : q * size >= amount /\ (q - 1) * size < amount

\* The greater and the smaller of two numbers.
Greater(a, b) == IF a >= b THEN a ELSE b
Smaller(a, b) == IF a <= b THEN a ELSE b

\* C29: page numbers are 1-indexed: whatever the user clicks and types,
\* every call of setPage has a page number from 1 to max(1, maxPage), where
\* maxPage = ceil(totalCount / perPage), for totalCount >= 0 and
\* perPage >= 1.
C29_SetPageWithinPages ==
  setPageCall # <<>> /\ totalCount >= 0 /\ perPage >= 1 =>
    /\ setPageCall[1] >= 1
    /\ setPageCall[1] <= Greater(1, Ceiling(totalCount, perPage))

\* The ten digits in their order.
DigitOrder == <<"0", "1", "2", "3", "4", "5", "6", "7", "8", "9">>

\* The text is a decimal numeral.
Numeral(text) ==
  text # <<>> /\ \A k \in DOMAIN text : \E d \in DOMAIN DigitOrder : DigitOrder[d] = text[k]

\* The number that a decimal numeral writes.
RECURSIVE NumeralValue(_)
NumeralValue(text) ==
  IF text = <<>> THEN 0
  ELSE 10 * NumeralValue(SubSeq(text, 1, Len(text) - 1))
       + (CHOOSE d \in DOMAIN DigitOrder : DigitOrder[d] = text[Len(text)]) - 1

\* The place of the first hyphen of the text; 0 when it has none.
HyphenAt(text) ==
  IF \E k \in DOMAIN text : text[k] = "-"
  THEN CHOOSE k \in DOMAIN text : text[k] = "-" /\ \A j \in 1..(k - 1) : text[j] # "-"
  ELSE 0

\* C30: for perPage >= 1, totalCount >= 1 and a page from 1 to
\* ceil(totalCount / perPage), the displayed range is lower-upper with
\* lower = (page - 1) * perPage + 1 and upper = min(page * perPage,
\* totalCount), so that 1 <= lower <= upper <= totalCount and the range has
\* at most perPage items.
C30_RangeOfThePage ==
  perPage >= 1 /\ totalCount >= 1 /\ pageNumber >= 1
    /\ pageNumber <= Ceiling(totalCount, perPage) =>
      LET text == pageShowingRange(pageNumber, perPage, totalCount)
          lowerText == SubSeq(text, 1, HyphenAt(text) - 1)
          upperText == SubSeq(text, HyphenAt(text) + 1, Len(text))
          lower == NumeralValue(lowerText)
          upper == NumeralValue(upperText)
      IN /\ HyphenAt(text) > 0
         /\ Numeral(lowerText)
         /\ Numeral(upperText)
         /\ lower = (pageNumber - 1) * perPage + 1
         /\ upper = Smaller(pageNumber * perPage, totalCount)
         /\ 1 <= lower
         /\ lower <= upper
         /\ upper <= totalCount
         /\ upper - lower + 1 <= perPage

\* The user has gone to the last page, which is not full: 7 items in pages
\* of 3, page 3.
C30_Witness ==
  /\ totalCount = 7
  /\ perPage = 3
  /\ pageNumber = 3
  /\ setPageCall = <<3>>
  /\ pageShowingRange(pageNumber, perPage, totalCount) = <<"7", "-", "7">>

====
